---- MODULE Spec2Model ----
(***************************************************************************)
(* PrintQue fleet controller: fleet state (PRINTERS, ORDERS, filament      *)
(* total), the order distributor, the start-print contract, the status     *)
(* reconciler with its FINISHED handler, ejection locks, the COOLING pass  *)
(* and the Prusa ejection watchdog.                                        *)
(*                                                                         *)
(* Scheduling: app.py monkey-patches eventlet, so the worker "threads"     *)
(* interleave at blocking calls (network I/O, sleep).  An action is the    *)
(* code between two such points.                                           *)
(***************************************************************************)
EXTENDS Integers, Sequences, FiniteSets, TLC

(* ---------------------------------------------------------------------- *)
(* Bounds of the model                                                     *)
(* ---------------------------------------------------------------------- *)
MaxTimers == 2
BatchFleet == 6
MaxPrinters == 1
MaxOrders == 1
MaxQty == 2
EjectQty == 1
GroupFleet == 2

(* ---------------------------------------------------------------------- *)
(* Program constants                                                       *)
(* ---------------------------------------------------------------------- *)
MAX_CONCURRENT_JOBS == 10
(* seconds a completed ejection keeps the printer's READY state held       *)
MANUAL_TIMEOUT == 300

(* The fleet: one Prusa (HTTP pull) and one Bambu (MQTT push) printer, in  *)
(* the order of the PRINTERS list.                                         *)
PrinterSeq == <<"P1", "B2">>
Printers == {PrinterSeq[i] : i \in 1..Len(PrinterSeq)}
PType(p) == IF p = "B2" THEN "bambu" ELSE "prusa"
(* p.get('group', 'Default') of a printer dict *)
PGroup(printer) == printer.group
Groups == {"Default"}
GroupLabels == {"A", "B"}

(* Encodings of Python None and of a missing dictionary key for integer    *)
(* fields, and of a null / non-null timestamp.                             *)
Absent == -2
None == -1
NoTime == "null"
SomeTime == "time"
(* file: Python None, the string "None", an order's file, an ejection file *)
NoFile == "null"

(* Values drawn for user and environment inputs.                           *)
Quantities == 0..MaxQty
FilamentValues == {5}
CooldownValues == {None, 40}
BedTemps == {40, 55}
UploadStatus == {201, 409, 500}

Min(a, b) == IF a < b THEN a ELSE b
Range(s) == {s[i] : i \in 1..Len(s)}

(* dict.update(): the keys of v override those of u.                       *)
Upd(u, v) == v @@ u

VARIABLES
    PRINTERS,                   \* name -> printer dict (services.state.PRINTERS)
    ORDERS,                     \* list of order dicts (services.state.ORDERS)
    TOTAL_FILAMENT_CONSUMPTION, \* grams, print_jobs.TOTAL_FILAMENT_CONSUMPTION
    dist,                       \* distributor: the semaphore's permits, the
                                \* running pass and its jobs, the pending
                                \* distribution timer
    poll,                       \* the status poller pass, its snapshot and
                                \* its printer_indices
    EJECTION_LOCKS,             \* name -> lock held (ejection_manager.EJECTION_LOCKS)
    EJECTION_STATES,            \* name -> state kept by the ejection state manager
    BAMBU_PRINTER_STATES,       \* name -> cached MQTT state (bambu_handler)
    ejection_paused,            \* global ejection pause flag
    testing,                    \* printers with an operator test send in flight
    MQTT_CLIENTS,               \* name -> client.is_connected() (bambu_handler)
    CONNECTION_RETRIES,         \* name -> reconnections scheduled in a row
    reconnect_timers,           \* pending threading.Timer reconnections
    client_loop,                \* name -> the client's network loop: "stopped",
                                \* "wait" (running, connect_bambu_printer in
                                \* its wait) or "running"
    ftp_upload,                 \* the last file sent to a Bambu printer: the
                                \* local name, the name on the printer's card
                                \* and the name in the print command
    ejection_send               \* the last call of send_bambu_ejection_gcode:
                                \* what it found in the cache and its answer

vars == <<PRINTERS, ORDERS, TOTAL_FILAMENT_CONSUMPTION, dist, poll,
          EJECTION_LOCKS, EJECTION_STATES, BAMBU_PRINTER_STATES,
          ejection_paused, testing, MQTT_CLIENTS, CONNECTION_RETRIES,
          reconnect_timers, client_loop, ftp_upload, ejection_send>>

ftpVars == <<ftp_upload>>

sendVars == <<ejection_send>>

mqttVars == <<MQTT_CLIENTS, CONNECTION_RETRIES, reconnect_timers, client_loop>>

ejectVars == <<EJECTION_LOCKS, EJECTION_STATES, BAMBU_PRINTER_STATES,
               ejection_paused, testing, mqttVars, ftpVars, sendVars>>

(* printer_indices[idx] of the running poller pass: the PRINTERS entry the *)
(* pass reads and writes for the snapshot printer p.                       *)
printer_indices(p) == poll.indices[p]

(* ---------------------------------------------------------------------- *)
(* User actions on the fleet and on the order library                      *)
(* ---------------------------------------------------------------------- *)
new_printer(group) ==
    [group |-> group, service_mode |-> FALSE,
     state |-> "OFFLINE", status |-> "Offline", file |-> NoFile,
     manually_set |-> FALSE, ejection_processed |-> FALSE,
     ejection_in_progress |-> FALSE, finish_time |-> NoTime,
     order_id |-> None, pending_ejection |-> "absent",
     cooldown_target |-> Absent, cooldown_target_temp |-> Absent,
     cooldown_order_id |-> None,
     manual_timeout |-> Absent, last_ejection_time |-> NoTime,
     count_incremented_for_current_job |-> FALSE]

(* max_printers is the configured printer limit (MAX_PRINTERS).           *)
api_add_printer(name, group, max_printers) ==
    /\ name \notin DOMAIN PRINTERS
    /\ Cardinality(DOMAIN PRINTERS) < max_printers
    /\ PRINTERS' = (name :> new_printer(group)) @@ PRINTERS
    /\ UNCHANGED <<ORDERS, TOTAL_FILAMENT_CONSUMPTION, dist, poll, ejectVars>>

(* initialize_state: a printer of the stored printers document, which can  *)
(* be in service mode, enters the fleet with its stored state.             *)
initialize_state(name, group, in_service, state, max_printers) ==
    /\ name \notin DOMAIN PRINTERS
    /\ Cardinality(DOMAIN PRINTERS) < max_printers
    /\ PRINTERS' = (name :> [new_printer(group) EXCEPT
                               !.service_mode = in_service, !.state = state])
                      @@ PRINTERS
    /\ UNCHANGED <<ORDERS, TOTAL_FILAMENT_CONSUMPTION, dist, poll, ejectVars>>

OrderIds == {ORDERS[i].id : i \in DOMAIN ORDERS}
SetMax(S) == IF S = {} THEN 0 ELSE CHOOSE x \in S : \A y \in S : y <= x

api_create_order(quantity, ejection_enabled, cooldown_temp, filament_g, groups) ==
    /\ Len(ORDERS) < MaxOrders
    /\ ORDERS' = Append(ORDERS,
          [id |-> SetMax(OrderIds) + 1, quantity |-> quantity, sent |-> 0,
           filament_g |-> filament_g, ejection_enabled |-> ejection_enabled,
           cooldown_temp |-> cooldown_temp, groups |-> groups,
           deleted |-> FALSE])
    /\ UNCHANGED <<PRINTERS, TOTAL_FILAMENT_CONSUMPTION, dist, poll, ejectVars>>

api_update_order(order_id, quantity) ==
    /\ \E i \in DOMAIN ORDERS :
          /\ ORDERS[i].id = order_id
          /\ ORDERS[i].quantity # quantity
          /\ ORDERS' = [ORDERS EXCEPT ![i].quantity = quantity]
    /\ UNCHANGED <<PRINTERS, TOTAL_FILAMENT_CONSUMPTION, dist, poll, ejectVars>>

api_delete_order(order_id) ==
    /\ \E i \in DOMAIN ORDERS :
          /\ ORDERS[i].id = order_id
          /\ ~ORDERS[i].deleted
          /\ ORDERS' = [ORDERS EXCEPT ![i].deleted = TRUE]
    /\ UNCHANGED <<PRINTERS, TOTAL_FILAMENT_CONSUMPTION, dist, poll, ejectVars>>

(* GET /api/v1/orders: the orders that are not deleted                     *)
api_get_orders == SelectSeq(ORDERS, LAMBDA o : ~o.deleted)

(* The 'orders' of a status_update broadcast built from the order list     *)
(* orders: a copy of the list.                                             *)
status_update_orders(orders) == orders

(* ---------------------------------------------------------------------- *)
(* File names of a Bambu upload                                            *)
(* ---------------------------------------------------------------------- *)
(* A file name is a sequence of parts: a stem and extensions.              *)
MaxParts == 3
NameParts == {"part", ".gcode", ".3mf", ".stl"}
Filenames == UNION {[1..n -> NameParts] : n \in 1..MaxParts}

(* str.endswith *)
endswith(name, suffix) ==
    /\ Len(name) >= Len(suffix)
    /\ SubSeq(name, Len(name) - Len(suffix) + 1, Len(name)) = suffix

(* str.replace: every occurrence, from the left, without overlap           *)
RECURSIVE replace(_, _, _)
replace(name, old, new) ==
    IF Len(name) < Len(old) THEN name
    ELSE IF SubSeq(name, 1, Len(old)) = old
         THEN new \o replace(SubSeq(name, Len(old) + 1, Len(name)), old, new)
         ELSE <<Head(name)>> \o replace(Tail(name), old, new)

(* bambu_ftp.py line 287 *)
endswith_3mf(name) == endswith(name, <<".3mf">>)

(* prepare_gcode_for_bambu: the remote file name *)
prepare_gcode_for_bambu(filename) ==
    IF endswith_3mf(filename) THEN filename
    ELSE IF endswith(filename, <<".gcode">>) THEN filename
    ELSE IF endswith(filename, <<".gcode", ".3mf">>)
         THEN replace(filename, <<".gcode", ".3mf">>, <<".3mf">>)
    ELSE filename \o <<".gcode">>

(* print_jobs.py 417-422 and bambu_handler.py 824-828: the name of the     *)
(* print command                                                           *)
command_filename(filename) ==
    IF endswith(filename, <<".3mf">>) THEN filename
    ELSE IF endswith(filename, <<".gcode">>)
         THEN replace(filename, <<".gcode">>, <<".gcode", ".3mf">>)
    ELSE filename \o <<".gcode", ".3mf">>

no_upload == [filename |-> <<>>, uploaded |-> FALSE, remote_filename |-> <<>>,
              command |-> <<>>]

(* The file handling of a Bambu job: check_and_start_print names the file  *)
(* of the order, send_bambu_print_command uploads the local file when it   *)
(* exists and names the uploaded file in the print command.                *)
bambu_file_sent(filename, path_exists) ==
    LET requested == command_filename(filename)
        remote_filename == prepare_gcode_for_bambu(filename)
    IN  [filename |-> filename, uploaded |-> path_exists,
         remote_filename |-> IF path_exists THEN remote_filename ELSE <<>>,
         command |-> command_filename(IF path_exists THEN remote_filename
                                      ELSE requested)]

send_bambu_print_file(filename, path_exists) ==
    /\ ftp_upload' = bambu_file_sent(filename, path_exists)
    /\ UNCHANGED <<PRINTERS, ORDERS, TOTAL_FILAMENT_CONSUMPTION, dist, poll,
                   EJECTION_LOCKS, EJECTION_STATES, BAMBU_PRINTER_STATES,
                   ejection_paused, testing, mqttVars, sendVars>>

(* ---------------------------------------------------------------------- *)
(* The checks in front of a Bambu ejection send                            *)
(* ---------------------------------------------------------------------- *)
(* Seconds since last_ejection_time at the call.                           *)
MaxSince == 12
SinceLast == 0..MaxSince

(* The printer's cache entry as the checks read it: absent, or with the    *)
(* flag ejection_in_progress and the time since last_ejection_time.        *)
NoEntry == [known |-> FALSE, ejection_in_progress |-> FALSE, time_since_last |-> 0]
CacheEntries ==
    {NoEntry} \cup [known : {TRUE}, ejection_in_progress : BOOLEAN,
                    time_since_last : SinceLast]

cooldown_seconds == 10

(* A variant without the cooldown window.                                  *)
no_cooldown(time_since_last) == FALSE

(* lines 1025-1033 *)
ejection_cooldown_active(time_since_last) == time_since_last < cooldown_seconds

(* lines 1011-1036: the call returns False before anything is sent         *)
ejection_send_rejected(entry, force) ==
    /\ entry.known
    /\ \/ entry.ejection_in_progress /\ ~force
       \/ ejection_cooldown_active(entry.time_since_last) /\ ~force

no_send == [called |-> FALSE, entry |-> NoEntry, force |-> FALSE,
            rejected |-> FALSE, sent |-> FALSE, result |-> "none",
            ejection_in_progress |-> FALSE]

(* The whole call: the checks, then the lines published when the client is *)
(* connected; every way out but the rejection clears the flag.             *)
bambu_ejection_send(entry, force, outcome) ==
    /\ ejection_send' =
          [called |-> TRUE, entry |-> entry, force |-> force,
           rejected |-> ejection_send_rejected(entry, force),
           sent |-> ~ejection_send_rejected(entry, force) /\ outcome = "ok",
           result |-> IF ejection_send_rejected(entry, force) THEN "rejected"
                      ELSE outcome,
           ejection_in_progress |->
               IF ejection_send_rejected(entry, force)
               THEN entry.ejection_in_progress ELSE FALSE]
    /\ UNCHANGED <<PRINTERS, ORDERS, TOTAL_FILAMENT_CONSUMPTION, dist, poll,
                   EJECTION_LOCKS, EJECTION_STATES, BAMBU_PRINTER_STATES,
                   ejection_paused, testing, mqttVars, ftpVars>>

(* ---------------------------------------------------------------------- *)
(* Order distributor                                                       *)
(* ---------------------------------------------------------------------- *)
(* int(re.findall(r'\d+', name)[0]): the number in the printer's name      *)
PrinterNumbers ==
    [P1 |-> 1, B2 |-> 2, P3 |-> 3, P4 |-> 4, P5 |-> 5, P6 |-> 6, P7 |-> 7,
     P8 |-> 8, P9 |-> 9]
extract_number(p) == PrinterNumbers[p]

(* eligible_printers.sort(key=extract_number) *)
RECURSIVE SortByNumber(_)
SortByNumber(S) ==
    IF S = {} THEN <<>>
    ELSE LET p == CHOOSE x \in S : \A y \in S : extract_number(x) <= extract_number(y)
         IN  <<p>> \o SortByNumber(S \ {p})

active_orders ==
    SelectSeq(ORDERS, LAMBDA o : ~o.deleted /\ o.sent < o.quantity)

(* p.get('service_mode', False) *)
service_mode(printer) == printer.service_mode

(* lines 116-118 *)
ready_printers ==
    {p \in DOMAIN PRINTERS :
        ~service_mode(PRINTERS[p]) /\ PRINTERS[p].state \in {"READY", "IDLE"}}

(* order.get('groups', ['Default']) *)
order_groups(o) == o.groups

(* A variant of the group filter that lets every printer through.          *)
any_group(printer, order) == TRUE

(* line 160: the printer's group is one of the order's groups              *)
group_eligible(printer, order) == PGroup(printer) \in order_groups(order)

copies_needed(order, eligible_printers) ==
    Min(order.quantity - order.sent, Len(eligible_printers))

(* The loop over active_orders building all_jobs; each job holds copies of *)
(* the printer dict and of the order dict.                                 *)
RECURSIVE all_jobs(_, _, _)
all_jobs(orders, k, assigned_printers) ==
    IF k > Len(orders) THEN <<>>
    ELSE LET order == orders[k]
             eligible_printers ==
                 SortByNumber({p \in ready_printers \ assigned_printers :
                                  group_eligible(PRINTERS[p], order)})
             n == copies_needed(order, eligible_printers)
         IN  IF n <= 0 THEN all_jobs(orders, k + 1, assigned_printers)
             ELSE [i \in 1..n |->
                      [name |-> eligible_printers[i],
                       printer |-> PRINTERS[eligible_printers[i]],
                       order |-> order, result |-> "pending",
                       upload_resp |-> 0, retry_resp |-> 0]]
                  \o all_jobs(orders, k + 1,
                       assigned_printers \cup {eligible_printers[i] : i \in 1..n})

(* A variant of the acquisition that always succeeds.                      *)
acquire_unguarded(semaphore) == TRUE

(* distribution_semaphore.acquire(blocking=True, timeout=0.5): a permit is *)
(* taken when there is one; a pass lasts longer than the timeout.          *)
acquire(semaphore) == semaphore > 0

(* start_background_distribution with a free permit, up to the job list of *)
(* distribute_orders_async.                                                *)
distribution_started ==
    [dist EXCEPT !.pc = "jobs", !.jobs = all_jobs(active_orders, 1, {}),
                 !.semaphore = @ - 1]

(* A distribution request (order created or changed, printer marked ready, *)
(* ejection completed) that finds jobs to start.  A request that finds the *)
(* semaphore taken, no active order or no ready printer returns and leaves *)
(* the state as it is.                                                     *)
DistBegin ==
    /\ acquire(dist.semaphore)
    /\ all_jobs(active_orders, 1, {}) # <<>>
    /\ dist' = distribution_started
    /\ UNCHANGED <<PRINTERS, ORDERS, TOTAL_FILAMENT_CONSUMPTION, poll, ejectVars>>

(* The threading.Timer of trigger_mass_ejection_for_finished_printers      *)
(* fires: the same request, one second after the resume.  The timers the   *)
(* poller and the watchdog start after a completed ejection or a reset at  *)
(* the printer make the same call.                                         *)
mass_ejection_timer ==
    /\ dist.timer
    /\ dist' = IF acquire(dist.semaphore) /\ all_jobs(active_orders, 1, {}) # <<>>
               THEN [distribution_started EXCEPT !.timer = FALSE]
               ELSE [dist EXCEPT !.timer = FALSE]
    /\ UNCHANGED <<PRINTERS, ORDERS, TOTAL_FILAMENT_CONSUMPTION, poll, ejectVars>>

(* A variant of _upload_file that takes the overwrite retry to succeed.     *)
upload_file_retry_assumed(upload_resp, retry_resp) ==
    upload_resp \in {201, 409}

(* One attempt of _upload_file: PUT, and on 409 one more PUT with the      *)
(* Overwrite header.                                                       *)
_upload_file(upload_resp, retry_resp) ==
    IF upload_resp = 201 THEN TRUE
    ELSE IF upload_resp = 409 THEN retry_resp = 201
    ELSE FALSE

(* utils.retry_utils.retry_async: the outcome of the last attempt.         *)
retry_async(result) == result

(* services.state.increment_order_sent_count: sent + 1 for the order with  *)
(* that id; fails when there is no such order.                             *)
increment_order_sent_count(orders, order_id) ==
    [i \in DOMAIN orders |->
        IF orders[i].id = order_id
        THEN [orders[i] EXCEPT !.sent = @ + 1] ELSE orders[i]]

success_increment(order_id) == order_id \in OrderIds

(* The printer copy after a successful start.                              *)
started_printer(printer, order, incremented) ==
    LET p1 == [printer EXCEPT !.state = "PRINTING", !.file = "job"]
        p2 == IF incremented
              THEN [p1 EXCEPT !.order_id = order.id, !.finish_time = NoTime,
                              !.count_incremented_for_current_job = TRUE]
              ELSE p1
    IN  [p2 EXCEPT !.manually_set = FALSE, !.ejection_processed = FALSE,
                   !.ejection_in_progress = FALSE]

(* send_bambu_print_command: FTP upload, then the MQTT publish.  A client  *)
(* that is not connected marks the cache OFFLINE.                          *)
PrintCommandOutcomes == {"ok", "offline", "failed"}

send_bambu_print_command(b, outcome) ==
    IF outcome = "offline"
    THEN [cache |-> [b EXCEPT !.state = "OFFLINE"], success |-> FALSE]
    ELSE [cache |-> b, success |-> outcome = "ok"]

(* Jobs of a batch run concurrently; a batch starts when the batches       *)
(* before it are done.                                                     *)
batch_running(i) ==
    \A k \in DOMAIN dist.jobs :
        k <= ((i - 1) \div MAX_CONCURRENT_JOBS) * MAX_CONCURRENT_JOBS
           => dist.jobs[k].result \in {"ok", "failed"}

(* check_and_start_print for job i, up to its first request: the safety    *)
(* check on the job's printer copy and the reset of the count flag.        *)
check_and_start_print(i) ==
    LET job == dist.jobs[i]
    IN  /\ dist.pc = "jobs"
        /\ i \in DOMAIN dist.jobs
        /\ job.result = "pending"
        /\ batch_running(i)
        /\ dist' = IF job.printer.state \notin {"READY", "IDLE"}
                   THEN [dist EXCEPT !.jobs[i].result = "failed"]
                   ELSE [dist EXCEPT !.jobs[i].result = "checked",
                           !.jobs[i].printer.count_incremented_for_current_job = FALSE]
        /\ UNCHANGED <<PRINTERS, ORDERS, TOTAL_FILAMENT_CONSUMPTION, poll, ejectVars>>

(* Lines 552-562 and 427-436: the order list after the attempt.            *)
orders_after_start(success, order_id) ==
    IF success /\ success_increment(order_id)
    THEN increment_order_sent_count(ORDERS, order_id)
    ELSE ORDERS

(* A variant that counts the filament of every attempt.                    *)
filament_every_attempt(success, order) ==
    TOTAL_FILAMENT_CONSUMPTION + order.filament_g

(* Lines 563-568 and 438-443: the filament total after the attempt.        *)
filament_after_start(success, order) ==
    IF success /\ success_increment(order.id)
    THEN TOTAL_FILAMENT_CONSUMPTION + order.filament_g
    ELSE TOTAL_FILAMENT_CONSUMPTION

(* The print request of job i and its outcome: the upload responses of a   *)
(* Prusa printer, the outcome of send_bambu_print_command for a Bambu      *)
(* printer.                                                                *)
start_print(i, upload_resp, retry_resp, outcome) ==
    LET job == dist.jobs[i]
        printer == job.printer
        order == job.order
        bambu == PType(job.name) = "bambu"
        r == IF bambu
             THEN send_bambu_print_command(BAMBU_PRINTER_STATES[job.name], outcome)
             ELSE [cache |-> FALSE, success |->
                      retry_async(_upload_file(upload_resp, retry_resp))]
        incremented == r.success /\ success_increment(order.id)
        started ==
            IF bambu THEN started_printer(printer, order, incremented)
            ELSE [started_printer(printer, order, incremented)
                     EXCEPT !.finish_time = NoTime]
    IN  /\ dist.pc = "jobs"
        /\ i \in DOMAIN dist.jobs
        /\ job.result = "checked"
        /\ dist' = [dist EXCEPT
              !.jobs[i].result = IF r.success THEN "ok" ELSE "failed",
              !.jobs[i].printer = IF r.success THEN started ELSE printer,
              !.jobs[i].upload_resp = IF bambu THEN 0 ELSE upload_resp,
              !.jobs[i].retry_resp = IF bambu THEN 0 ELSE retry_resp]
        /\ ORDERS' = orders_after_start(r.success, order.id)
        /\ TOTAL_FILAMENT_CONSUMPTION' = filament_after_start(r.success, order)
        /\ BAMBU_PRINTER_STATES' =
              IF bambu THEN [BAMBU_PRINTER_STATES EXCEPT ![job.name] = r.cache]
              ELSE BAMBU_PRINTER_STATES
        /\ UNCHANGED <<PRINTERS, poll, EJECTION_LOCKS, EJECTION_STATES,
                       ejection_paused, testing,
                   mqttVars, ftpVars, sendVars>>

(* The write-back of the started printers' copies and the end of the pass. *)
apply_copy(live, copy) ==
    [copy EXCEPT
        !.pending_ejection = IF copy.pending_ejection = "absent"
                             THEN live.pending_ejection ELSE @,
        !.cooldown_target = IF copy.cooldown_target = Absent
                            THEN live.cooldown_target ELSE @,
        !.cooldown_target_temp = IF copy.cooldown_target_temp = Absent
                                 THEN live.cooldown_target_temp ELSE @]

updated_printers == {i \in DOMAIN dist.jobs : dist.jobs[i].result = "ok"}

DistApply ==
    /\ dist.pc = "jobs"
    /\ \A i \in DOMAIN dist.jobs : dist.jobs[i].result \in {"ok", "failed"}
    /\ PRINTERS' = [p \in DOMAIN PRINTERS |->
          IF \E i \in updated_printers : dist.jobs[i].name = p
          THEN apply_copy(PRINTERS[p],
                 dist.jobs[CHOOSE i \in updated_printers : dist.jobs[i].name = p].printer)
          ELSE PRINTERS[p]]
    /\ dist' = [dist EXCEPT !.pc = "idle", !.jobs = <<>>, !.semaphore = @ + 1]
    /\ UNCHANGED <<ORDERS, TOTAL_FILAMENT_CONSUMPTION, poll, ejectVars>>

(* ---------------------------------------------------------------------- *)
(* Bambu MQTT cache                                                        *)
(* ---------------------------------------------------------------------- *)
BambuPrinters == {p \in Printers : PType(p) = "bambu"}

new_bambu_state ==
    [state |-> "OFFLINE", bed_temp |-> 0, waiting_for_m400 |-> FALSE,
     ejection_complete |-> FALSE]

(* BAMBU_STATE_MAP.get(gcode_state, 'OFFLINE') *)
BAMBU_STATE_MAP(gcode_state) ==
    CASE gcode_state = "IDLE" -> "READY"
      [] gcode_state = "PREPARE" -> "PREPARING"
      [] gcode_state = "RUNNING" -> "PRINTING"
      [] gcode_state = "PAUSE" -> "PAUSED"
      [] gcode_state = "FAILED" -> "ERROR"
      [] gcode_state = "FINISH" -> "FINISHED"
      [] OTHER -> "OFFLINE"

(* print_error of a FAILED report with no job active (0x03000000) *)
NO_ACTIVE_JOB == 50331648

(* The safety timeout of an ejection: the cache is EJECTING and 15 s have   *)
(* passed since ejection_start_time.                                       *)
never_timed_out(b, elapsed) == FALSE

ejection_timed_out(b, elapsed) == b.state = "EJECTING" /\ elapsed

(* on_message: an M400 acknowledgement, or a report with gcode_state,      *)
(* print_error, HMS alerts (hms: the report carries alerts with a code)    *)
(* and bed temperature.  `elapsed` says whether 15 s have passed since the *)
(* ejection started.                                                       *)
on_message_state(b, msg, print_error, hms, elapsed) ==
    IF msg = "M400"
    THEN IF b.waiting_for_m400 /\ b.state = "EJECTING"
         THEN [b EXCEPT !.state = "READY", !.ejection_complete = TRUE,
                        !.waiting_for_m400 = FALSE]
         ELSE b
    ELSE LET mapped ==
               IF b.state = "EJECTING"
               THEN IF ejection_timed_out(b, elapsed) \/ msg \in {"IDLE", "FINISH"}
                    THEN [b EXCEPT !.state = "READY", !.ejection_complete = TRUE]
                    ELSE b
               ELSE IF msg = "FAILED"
               THEN IF print_error = NO_ACTIVE_JOB
                    THEN [b EXCEPT !.state = "READY"]
                    ELSE IF print_error = 0
                    THEN [b EXCEPT !.state = IF hms THEN "ERROR" ELSE "READY"]
                    ELSE [b EXCEPT !.state = "ERROR"]
               ELSE IF msg = "IDLE" THEN [b EXCEPT !.state = "READY"]
               ELSE [b EXCEPT !.state = BAMBU_STATE_MAP(msg)]
         IN  IF hms /\ mapped.state # "ERROR"
             THEN [mapped EXCEPT !.state = "ERROR"]
             ELSE mapped

GcodeStates == {"IDLE", "PREPARE", "RUNNING", "PAUSE", "FINISH", "FAILED"}
BambuMessages == {"M400", "IDLE", "RUNNING", "FINISH"}

on_message(p, msg, print_error, hms, bed_temper, elapsed) ==
    /\ p \in DOMAIN PRINTERS /\ PType(p) = "bambu"
    /\ LET b == on_message_state(BAMBU_PRINTER_STATES[p], msg, print_error, hms,
                                 elapsed)
           b2 == IF msg = "M400" THEN b ELSE [b EXCEPT !.bed_temp = bed_temper]
       IN  /\ b2 # BAMBU_PRINTER_STATES[p]
           /\ BAMBU_PRINTER_STATES' = [BAMBU_PRINTER_STATES EXCEPT ![p] = b2]
    /\ UNCHANGED <<PRINTERS, ORDERS, TOTAL_FILAMENT_CONSUMPTION, dist, poll,
                   EJECTION_LOCKS, EJECTION_STATES, ejection_paused, testing,
                   mqttVars, ftpVars, sendVars>>

(* CONNECTION_RETRIES.get(printer_name, 0) *)
retries_of(p) == IF p \in DOMAIN CONNECTION_RETRIES THEN CONNECTION_RETRIES[p] ELSE 0

MAX_RETRIES == 5
(* min(5 * (retries + 1), 30) *)
reconnect_delay(retries) == IF 5 * (retries + 1) < 30 THEN 5 * (retries + 1) ELSE 30

(* CONNECTION_RETRIES[printer_name] = 0 if the printer has an entry *)
reset_retries(p) ==
    IF p \in DOMAIN CONNECTION_RETRIES
    THEN [CONNECTION_RETRIES EXCEPT ![p] = 0] ELSE CONNECTION_RETRIES

Without(f, p) == [q \in DOMAIN f \ {p} |-> f[q]]

(* on_connect: rc = 0 marks the client connected and resets the retry      *)
(* count; another rc sets the cache OFFLINE.  A client whose loop runs     *)
(* gets the callback, registered in MQTT_CLIENTS or not.                   *)
on_connect(p, rc) ==
    /\ p \in DOMAIN PRINTERS /\ PType(p) = "bambu"
    /\ client_loop[p] # "stopped"
    /\ p \in DOMAIN MQTT_CLIENTS => ~MQTT_CLIENTS[p]
    /\ IF rc = 0
       THEN /\ MQTT_CLIENTS' = IF p \in DOMAIN MQTT_CLIENTS
                               THEN [MQTT_CLIENTS EXCEPT ![p] = TRUE]
                               ELSE MQTT_CLIENTS
            /\ CONNECTION_RETRIES' = reset_retries(p)
            /\ UNCHANGED BAMBU_PRINTER_STATES
       ELSE /\ BAMBU_PRINTER_STATES' =
                   [BAMBU_PRINTER_STATES EXCEPT ![p].state = "OFFLINE"]
            /\ UNCHANGED <<MQTT_CLIENTS, CONNECTION_RETRIES>>
    /\ UNCHANGED <<PRINTERS, ORDERS, TOTAL_FILAMENT_CONSUMPTION, dist, poll,
                   EJECTION_LOCKS, EJECTION_STATES, ejection_paused, testing,
                   reconnect_timers, client_loop, ftpVars, sendVars>>

(* on_disconnect: rc # 0 sets the cache OFFLINE and, for a client in       *)
(* MQTT_CLIENTS with fewer than 5 retries, counts a retry and starts a     *)
(* timer that reconnects after the delay.                                  *)
on_disconnect(p, rc) ==
    /\ p \in DOMAIN PRINTERS /\ PType(p) = "bambu"
    /\ BAMBU_PRINTER_STATES' =
          IF rc # 0 THEN [BAMBU_PRINTER_STATES EXCEPT ![p].state = "OFFLINE"]
          ELSE BAMBU_PRINTER_STATES
    /\ MQTT_CLIENTS' = IF p \in DOMAIN MQTT_CLIENTS
                       THEN [MQTT_CLIENTS EXCEPT ![p] = FALSE] ELSE MQTT_CLIENTS
    /\ IF rc # 0 /\ p \in DOMAIN MQTT_CLIENTS /\ retries_of(p) < MAX_RETRIES
       THEN /\ Len(reconnect_timers) < MaxTimers
            /\ CONNECTION_RETRIES' =
                  (p :> (retries_of(p) + 1)) @@ CONNECTION_RETRIES
            /\ reconnect_timers' =
                  Append(reconnect_timers,
                         [name |-> p, delay |-> reconnect_delay(retries_of(p))])
       ELSE UNCHANGED <<CONNECTION_RETRIES, reconnect_timers>>
    /\ UNCHANGED <<PRINTERS, ORDERS, TOTAL_FILAMENT_CONSUMPTION, dist, poll,
                   EJECTION_LOCKS, EJECTION_STATES, ejection_paused, testing,
                   client_loop, ftpVars, sendVars>>

(* connect_bambu_printer up to its wait: nothing for a connected client;   *)
(* else the old client is stopped and dropped and a new one is created,    *)
(* connected (or the attempt raised and the entry is dropped), its loop    *)
(* started and the client stored.                                          *)
connect_clients(p, raised) ==
    IF p \in DOMAIN MQTT_CLIENTS /\ MQTT_CLIENTS[p]
    THEN [clients |-> MQTT_CLIENTS, loop |-> client_loop]
    ELSE IF raised
    THEN [clients |-> Without(MQTT_CLIENTS, p),
          loop |-> IF p \in DOMAIN MQTT_CLIENTS
                   THEN [client_loop EXCEPT ![p] = "stopped"] ELSE client_loop]
    ELSE [clients |-> (p :> FALSE) @@ MQTT_CLIENTS,
          loop |-> [client_loop EXCEPT ![p] = "wait"]]

ConnectBegin(p, raised) ==
    /\ p \in DOMAIN PRINTERS /\ PType(p) = "bambu"
    /\ client_loop[p] # "wait"
    /\ ~(p \in DOMAIN MQTT_CLIENTS /\ MQTT_CLIENTS[p])
    /\ MQTT_CLIENTS' = connect_clients(p, raised).clients
    /\ client_loop' = connect_clients(p, raised).loop
    /\ UNCHANGED <<PRINTERS, ORDERS, TOTAL_FILAMENT_CONSUMPTION, dist, poll,
                   EJECTION_LOCKS, EJECTION_STATES, BAMBU_PRINTER_STATES,
                   ejection_paused, testing, CONNECTION_RETRIES,
                   reconnect_timers, ftpVars, sendVars>>

(* connect_bambu_printer after its wait: a client that is not connected is *)
(* dropped from MQTT_CLIENTS; its loop is left running.                    *)
ConnectFinish(p) ==
    /\ client_loop[p] = "wait"
    /\ client_loop' = [client_loop EXCEPT ![p] = "running"]
    /\ MQTT_CLIENTS' = IF p \in DOMAIN MQTT_CLIENTS /\ ~MQTT_CLIENTS[p]
                       THEN Without(MQTT_CLIENTS, p) ELSE MQTT_CLIENTS
    /\ UNCHANGED <<PRINTERS, ORDERS, TOTAL_FILAMENT_CONSUMPTION, dist, poll,
                   EJECTION_LOCKS, EJECTION_STATES, BAMBU_PRINTER_STATES,
                   ejection_paused, testing, CONNECTION_RETRIES,
                   reconnect_timers, ftpVars, sendVars>>

RemoveAt(seq, k) == [j \in 1..(Len(seq) - 1) |-> IF j < k THEN seq[j] ELSE seq[j + 1]]

(* The k-th pending timer fires: reconnect_bambu_printer connects the      *)
(* printer if it is still a Bambu printer of the fleet.                    *)
reconnect_bambu_printer(k, raised) ==
    /\ k \in DOMAIN reconnect_timers
    /\ reconnect_timers' = RemoveAt(reconnect_timers, k)
    /\ LET p == reconnect_timers[k].name
       IN  /\ client_loop[p] # "wait"
           /\ IF p \in DOMAIN PRINTERS /\ PType(p) = "bambu"
              THEN /\ MQTT_CLIENTS' = connect_clients(p, raised).clients
                   /\ client_loop' = connect_clients(p, raised).loop
              ELSE UNCHANGED <<MQTT_CLIENTS, client_loop>>
    /\ UNCHANGED <<PRINTERS, ORDERS, TOTAL_FILAMENT_CONSUMPTION, dist, poll,
                   EJECTION_LOCKS, EJECTION_STATES, BAMBU_PRINTER_STATES,
                   ejection_paused, testing, CONNECTION_RETRIES, ftpVars, sendVars>>

(* disconnect_bambu_printer: the client is dropped and stopped and the     *)
(* retry count reset.                                                      *)
disconnect_bambu_printer(p) ==
    /\ p \in DOMAIN MQTT_CLIENTS
    /\ client_loop[p] # "wait"
    /\ MQTT_CLIENTS' = Without(MQTT_CLIENTS, p)
    /\ client_loop' = [client_loop EXCEPT ![p] = "stopped"]
    /\ CONNECTION_RETRIES' = reset_retries(p)
    /\ UNCHANGED <<PRINTERS, ORDERS, TOTAL_FILAMENT_CONSUMPTION, dist, poll,
                   EJECTION_LOCKS, EJECTION_STATES, BAMBU_PRINTER_STATES,
                   ejection_paused, testing, reconnect_timers, ftpVars, sendVars>>

(* send_bambu_ejection_gcode(printer, end_gcode): the cache afterwards and *)
(* the returned success.  outcome is the transport's behaviour: "ok",      *)
(* "offline" (client not connected) or "publish_failed".  Two ejections of *)
(* one printer are taken to be more than 10 s apart, so the duplicate      *)
(* check on last_ejection_time passes.                                     *)
send_bambu_ejection_gcode(b, outcome) ==
    IF outcome = "offline"
    THEN [cache |-> [b EXCEPT !.state = "OFFLINE"], success |-> FALSE]
    ELSE IF outcome = "publish_failed"
    THEN [cache |-> [b EXCEPT !.state = "EJECTING", !.ejection_complete = FALSE,
                              !.waiting_for_m400 = FALSE],
          success |-> FALSE]
    ELSE [cache |-> [b EXCEPT !.state = "EJECTING", !.ejection_complete = FALSE,
                              !.waiting_for_m400 = TRUE],
          success |-> TRUE]

SendOutcomes == {"ok", "offline", "publish_failed"}

(* ---------------------------------------------------------------------- *)
(* FINISHED handler (ejection manager)                                     *)
(* ---------------------------------------------------------------------- *)
(* A "world" w is the shared state a poller pass works on:                 *)
(*   w.P printers, w.L ejection locks, w.E ejection states, w.B the Bambu  *)
(*   cache, w.U the printer_updates of the pass, w.sent the printers an    *)
(*   ejection G-code was sent or uploaded to during the pass.              *)
find_order(order_id) ==
    IF \E i \in DOMAIN ORDERS : ORDERS[i].id = order_id
    THEN {ORDERS[CHOOSE i \in DOMAIN ORDERS : ORDERS[i].id = order_id]}
    ELSE {}

(* services.state ejection state manager: per printer a state and the     *)
(* metadata given with it ("none" when the caller gives none).             *)
no_ejection_state == [state |-> "none", metadata |-> "none"]
set_printer_ejection_state(E, p, state, metadata) ==
    [E EXCEPT ![p] = [state |-> state, metadata |-> metadata]]
get_printer_ejection_state(E, p) == E[p]
clear_printer_ejection_state(E, p) == [E EXCEPT ![p] = no_ejection_state]
(* A variant that reads the pause flag as off.                              *)
pause_ignored == FALSE

get_ejection_paused == ejection_paused

release_ejection_lock(L, p) == [L EXCEPT ![p] = FALSE]

(* lines 252-313: all checks passed, start the ejection *)
start_ejection(w, p, printer, updates, outcome) ==
    LET u == Upd(updates,
               [state |-> "EJECTING", status |-> "Other", manually_set |-> FALSE,
                ejection_in_progress |-> TRUE, ejection_processed |-> TRUE])
        w1 == [w EXCEPT !.U[p] = u]
    IN  IF w.L[p] THEN w1          \* acquire(blocking=False) failed
        ELSE LET w2 == [w1 EXCEPT !.L[p] = TRUE,
                           !.E = set_printer_ejection_state(w.E, p, "in_progress", "none")]
             IN  IF PType(p) = "bambu"
                 THEN LET r == send_bambu_ejection_gcode(w.B[p], outcome)
                      IN  IF r.success
                          THEN [w2 EXCEPT !.B[p] = r.cache, !.sent = @ \cup {p}]
                          ELSE [w2 EXCEPT !.B[p] = r.cache,
                                   !.E = set_printer_ejection_state(w.E, p, "completed", "none"),
                                   !.L = release_ejection_lock(w2.L, p)]
                 ELSE [w2 EXCEPT !.P[p] =
                          [w.P[p] EXCEPT !.pending_ejection = "set",
                              !.state = "EJECTING", !.status = "Other",
                              !.ejection_in_progress = TRUE,
                              !.ejection_processed = TRUE,
                              !.manually_set = FALSE]]

(* A variant of the guard that never skips.                                *)
never_handled(printer) == FALSE

(* line 159: the ejection of this print was processed or is in progress    *)
already_handled(printer) ==
    printer.ejection_processed \/ printer.ejection_in_progress

(* time.time() read while the printer carries a stamp: a later reading.    *)
LaterTime == "later"
time_time(printer) ==
    IF printer.finish_time = NoTime THEN SomeTime ELSE LaterTime

handle_finished_state_ejection(w, p, printer, updates, outcome) ==
    LET u0 == Upd(updates, [finish_time |->
                 IF printer.finish_time = NoTime THEN SomeTime
                 ELSE printer.finish_time])
        orders == find_order(printer.order_id)
        order == CHOOSE o \in orders : TRUE
    IN  IF already_handled(printer)
        THEN [w EXCEPT !.U[p] = Upd(u0,
                 [state |-> printer.state, status |-> "Other",
                  manually_set |-> FALSE])]
        ELSE IF orders = {} \/ ~order.ejection_enabled
        THEN [w EXCEPT !.U[p] = Upd(u0,
                 [state |-> "FINISHED", status |-> "Other", manually_set |-> FALSE,
                  ejection_processed |-> FALSE, ejection_in_progress |-> FALSE,
                  finish_time |-> time_time(printer)])]
        ELSE IF get_ejection_paused
        THEN [w EXCEPT !.E = set_printer_ejection_state(w.E, p, "queued", "global_pause"),
                       !.U[p] = Upd(u0,
                 [state |-> "FINISHED", status |-> "Print Complete (Ejection Paused)", manually_set |-> FALSE,
                  ejection_in_progress |-> FALSE, finish_time |-> time_time(printer)])]
        ELSE IF PType(p) = "bambu" /\ order.cooldown_temp # None
                /\ w.B[p].bed_temp > order.cooldown_temp
        THEN [w EXCEPT !.U[p] = Upd(u0,
                 [state |-> "COOLING", status |-> "Other", manually_set |-> FALSE,
                  ejection_in_progress |-> FALSE,
                  cooldown_target |-> order.cooldown_temp])]
        ELSE start_ejection(w, p, printer, u0, outcome)

(* ---------------------------------------------------------------------- *)
(* Status poller: observation and merge                                    *)
(* ---------------------------------------------------------------------- *)
EmptyUpdate == [k \in {} |-> FALSE]

(* What a Prusa printer's HTTP API answers: no answer, or a state and,     *)
(* while printing, the job's file (or no answer to the job request).       *)
PrusaObs ==
    {[state |-> "None", file |-> NoFile], [state |-> "IDLE", file |-> NoFile],
     [state |-> "FINISHED", file |-> NoFile], [state |-> "PRINTING", file |-> "job"],
     [state |-> "PRINTING", file |-> "ejection"],
     [state |-> "PRINTING", file |-> "unavailable"]}

get_bambu_status(b, printer, connected) ==
    IF printer.manually_set /\ printer.state = "READY"
    THEN [cache |-> b, data |-> [state |-> "READY", file |-> NoFile]]
    ELSE IF printer.state = "COOLING"
    THEN [cache |-> b, data |-> [state |-> "COOLING", file |-> NoFile]]
    ELSE IF ~connected
    THEN [cache |-> [b EXCEPT !.state = "OFFLINE"],
          data |-> [state |-> "OFFLINE", file |-> NoFile]]
    ELSE [cache |-> b, data |-> [state |-> b.state, file |-> "job"]]

offline_update ==
    [state |-> "OFFLINE", status |-> "Other", file |-> "None",
     manually_set |-> FALSE, ejection_in_progress |-> FALSE,
     finish_time |-> NoTime, count_incremented_for_current_job |-> FALSE]

ready_update(printer) ==
    [state |-> "READY", status |-> "Other", file |-> NoFile, manually_set |-> TRUE,
     ejection_processed |-> printer.ejection_processed,
     ejection_in_progress |-> FALSE,
     count_incremented_for_current_job |-> printer.count_incremented_for_current_job]

keep_ejecting_update(printer) ==
    [state |-> "EJECTING", status |-> "Other", file |-> printer.file,
     manually_set |-> FALSE, ejection_processed |-> printer.ejection_processed,
     ejection_in_progress |-> printer.ejection_in_progress,
     count_incremented_for_current_job |-> printer.count_incremented_for_current_job]

reset_to_ready_update ==
    [state |-> "READY", status |-> "Other", file |-> NoFile, order_id |-> None,
     manually_set |-> TRUE, ejection_processed |-> FALSE,
     ejection_in_progress |-> FALSE, finish_time |-> NoTime,
     count_incremented_for_current_job |-> FALSE]

(* lines 648-667: the merge's update for a stored EJECTING printer that   *)
(* answers IDLE or OPERATIONAL; also the watchdog's (ejection_manager.py   *)
(* 477-492)                                                                *)
ejection_done_update ==
    Upd(reset_to_ready_update, [last_ejection_time |-> SomeTime])

(* lines 833-849: the completion pass's update *)
completion_update ==
    Upd(ejection_done_update, [manual_timeout |-> MANUAL_TIMEOUT])

(* lines 594-598: the handler, then the flag for an EJECTING update *)
finished_branch(w, p, printer, updates, outcome) ==
    LET w1 == handle_finished_state_ejection(w, p, printer, updates, outcome)
    IN  IF w1.U[p].state = "EJECTING"
        THEN [w1 EXCEPT !.U[p] = Upd(@, [ejection_in_progress |-> TRUE])]
        ELSE w1

(* lines 535-681: the default branch of the merge *)
default_branch(w, p, printer, api_data, outcome) ==
    LET api == IF PType(p) = "bambu" /\ api_data.state = "PREPARING"
               THEN [api_data EXCEPT !.state = "PREPARE"] ELSE api_data
        base == [state |-> api.state, status |-> "Other",
                 ejection_in_progress |-> FALSE]
        stored == w.P[printer_indices(p)]
        ft == [finish_time |->
                 IF stored.finish_time # NoTime THEN stored.finish_time
                 ELSE IF stored.state = "FINISHED" THEN SomeTime ELSE NoTime]
    IN  IF api.state \in {"PRINTING", "PAUSED"}
        THEN IF api.file = "unavailable" THEN [w EXCEPT !.U[p] = base]
             ELSE [w EXCEPT !.U[p] = Upd(base,
                     [file |-> api.file, manually_set |-> printer.manually_set,
                      ejection_processed |-> FALSE, ejection_in_progress |-> FALSE,
                      finish_time |-> NoTime,
                      count_incremented_for_current_job |->
                          printer.count_incremented_for_current_job])]
        ELSE IF api.state = "FINISHED"
        THEN finished_branch(w, p, printer, base, outcome)
        ELSE IF api.state \in {"IDLE", "OPERATIONAL"}
        THEN IF stored.state = "FINISHED"
             THEN [w EXCEPT !.U[p] = Upd(Upd(base, ft), reset_to_ready_update),
                            !.timer = TRUE]
             ELSE IF stored.state = "EJECTING"
             THEN [w EXCEPT !.U[p] = Upd(Upd(base, ft), ejection_done_update),
                            !.L = release_ejection_lock(w.L, p),
                            !.E = clear_printer_ejection_state(w.E, p)]
             ELSE [w EXCEPT !.U[p] = Upd(Upd(base, ft),
                     [state |-> api.state, status |-> "Other", file |-> "None",
                      manually_set |-> FALSE, ejection_in_progress |-> FALSE,
                      count_incremented_for_current_job |-> FALSE])]
        ELSE IF api.state # "EJECTING"
        THEN [w EXCEPT !.U[p] = Upd(base,
                [file |-> "None", manually_set |-> FALSE, finish_time |-> NoTime,
                 ejection_in_progress |-> FALSE,
                 count_incremented_for_current_job |-> FALSE])]
        ELSE [w EXCEPT !.U[p] = base]

(* A variant that treats a COOLING printer like any other.                 *)
cooling_ignored(stored_state) == FALSE

(* lines 176-178 and 429-442: a printer stored as COOLING is skipped       *)
cooling_preserved(stored_state) == stored_state = "COOLING"

(* A variant that follows the driver during an ejection.                   *)
ejection_followed(printer, api_state) == FALSE

(* line 503: the driver's idle states are ignored during an ejection       *)
ejection_maintained(printer, api_state) ==
    /\ printer.ejection_in_progress /\ printer.state = "EJECTING"
    /\ api_state \in {"IDLE", "READY", "OPERATIONAL", "FINISHED"}

(* lines 381-686: the update computed for one printer of the batch *)
merge(w, p, printer, api, outcome) ==
    IF api.state = "None" THEN [w EXCEPT !.U[p] = offline_update]
    ELSE IF cooling_preserved(w.P[printer_indices(p)].state)
    THEN [w EXCEPT !.U[p] = EmptyUpdate]
    ELSE IF printer.manually_set /\ api.state \notin {"PRINTING", "EJECTING"}
    THEN IF api.state = "FINISHED"
         THEN finished_branch(w, p, printer, EmptyUpdate, outcome)
         ELSE [w EXCEPT !.U[p] = ready_update(printer)]
    ELSE IF printer.ejection_processed /\ printer.state = "READY"
    THEN [w EXCEPT !.U[p] = Upd(ready_update(printer),
             [order_id |-> None, ejection_processed |-> TRUE])]
    ELSE IF ejection_maintained(printer, api.state)
    THEN [w EXCEPT !.U[p] = keep_ejecting_update(printer)]
    ELSE IF /\ printer.state = "EJECTING" /\ api.state = "PRINTING"
            /\ printer.file = "ejection"
    THEN [w EXCEPT !.U[p] = keep_ejecting_update(printer)]
    ELSE default_branch(w, p, printer, api, outcome)

(* lines 688-709 and async_send_ejection_gcode: upload of a pending Prusa   *)
(* ejection file when the computed update says EJECTING.                   *)
HasState(u) == "state" \in DOMAIN u
state_of(u) == IF HasState(u) THEN u.state ELSE "None"

(* lines 688-692: the update says EJECTING and an ejection is stashed      *)
has_pending_ejection(w, p) ==
    /\ state_of(w.U[p]) = "EJECTING"
    /\ w.P[printer_indices(p)].pending_ejection = "set"
    /\ PType(p) # "bambu"

(* async_send_ejection_gcode for a Prusa printer: the upload and its       *)
(* outcome                                                                 *)
async_send_ejection_gcode(w, p, upload_resp) ==
    IF retry_async(upload_resp = 201)
    THEN [w EXCEPT !.E = set_printer_ejection_state(w.E, p, "running", "none"),
                   !.sent = @ \cup {p}]
    ELSE [w EXCEPT !.E = set_printer_ejection_state(w.E, p, "failed", "none"),
                   !.L = release_ejection_lock(w.L, p)]

(* lines 706-709: the task is queued and the stash cleared                 *)
queue_ejection_task(w, p) ==
    [w EXCEPT !.P[printer_indices(p)].pending_ejection = "None"]

pending_ejection_task(w, p, upload_resp) ==
    IF has_pending_ejection(w, p)
    THEN async_send_ejection_gcode(queue_ejection_task(w, p), p, upload_resp)
    ELSE w

(* The stored record keeps whether a stamp is set; which reading of the    *)
(* clock it is shows in the update that carries it.                        *)
stored_stamp(t) == IF t = NoTime THEN NoTime ELSE SomeTime

(* PRINTERS[i][key] = value for every key of the update *)
MkPrinter(m) ==
    [group |-> m.group, service_mode |-> m.service_mode,
     state |-> m.state, status |-> m.status, file |-> m.file,
     manually_set |-> m.manually_set, ejection_processed |-> m.ejection_processed,
     ejection_in_progress |-> m.ejection_in_progress,
     finish_time |-> stored_stamp(m.finish_time), order_id |-> m.order_id,
     pending_ejection |-> m.pending_ejection,
     cooldown_target |-> m.cooldown_target,
     cooldown_target_temp |-> m.cooldown_target_temp,
     cooldown_order_id |-> m.cooldown_order_id,
     manual_timeout |-> m.manual_timeout,
     last_ejection_time |-> m.last_ejection_time,
     count_incremented_for_current_job |-> m.count_incremented_for_current_job]

(* update['index'] == i: the PRINTERS entry q has an update in the pass    *)
updated(q) == \E p \in DOMAIN poll.snap : printer_indices(p) = q
update_for(w, q) == w.U[CHOOSE p \in DOMAIN poll.snap : printer_indices(p) = q]

(* lines 741-766: one update applied under the write lock *)
apply_update(live, u) ==
    LET new_manually_set == IF "manually_set" \in DOMAIN u THEN u.manually_set
                            ELSE live.manually_set
        u1 == IF /\ live.manually_set /\ ~new_manually_set
                 /\ state_of(u) # "PRINTING" /\ live.state = "READY"
              THEN Upd(u, [manually_set |-> TRUE]) ELSE u
        u2 == IF /\ live.state = "READY" /\ state_of(u1) = "FINISHED"
                 /\ (live.file = NoFile \/ live.ejection_processed)
              THEN Upd(u1, [state |-> "READY", status |-> "Other",
                            manually_set |-> TRUE])
              ELSE u1
    IN  MkPrinter(Upd(live, u2))

(* A variant without the repair.                                           *)
no_failsafe(printer) == printer

(* lines 768-775 *)
failsafe(printer) ==
    IF printer.manually_set /\ printer.state \notin {"READY", "PRINTING", "EJECTING"}
    THEN [printer EXCEPT !.state = "READY", !.status = "Other",
                         !.manually_set = TRUE,
                         !.count_incremented_for_current_job = FALSE]
    ELSE printer

(* lines 777-857: ejection completion monitoring of one EJECTING printer *)
ejection_complete(w, p) ==
    LET printer == w.P[p]
        u == IF updated(p) THEN update_for(w, p) ELSE EmptyUpdate
        api_state == state_of(u)
        current_api_file == IF "file" \in DOMAIN u THEN u.file ELSE NoFile
    IN  IF get_printer_ejection_state(w.E, p).state = "completed" THEN TRUE
        ELSE IF api_state \in {"IDLE", "READY", "OPERATIONAL"} THEN TRUE
        ELSE IF PType(p) # "bambu"
        THEN IF printer.file = "ejection" THEN current_api_file # "ejection"
             ELSE api_state = "FINISHED"
        ELSE w.B[p].ejection_complete \/ w.B[p].state \in {"IDLE", "READY"}

completion_monitoring(w, p) ==
    IF w.P[p].state = "EJECTING" /\ ejection_complete(w, p)
    THEN [w EXCEPT !.P[p] = MkPrinter(Upd(w.P[p], completion_update)),
                   !.L = release_ejection_lock(w.L, p),
                   !.E = clear_printer_ejection_state(w.E, p),
                   !.timer = TRUE]
    ELSE w

(* lines 859-923: the COOLING pass for one printer.  A cooldown target of  *)
(* None makes the comparison raise, which ends the pass.                   *)
cooling_monitoring(w, p, outcome) ==
    LET printer == w.P[p]
        cooldown_target == IF printer.cooldown_target_temp = Absent THEN 0
                           ELSE printer.cooldown_target_temp
        current_bed_temp == IF p \in DOMAIN w.B THEN w.B[p].bed_temp ELSE 0
        orders == find_order(printer.cooldown_order_id)
        order == CHOOSE o \in orders : TRUE
        cooled == [printer EXCEPT !.status = "Other"]
    IN  IF printer.state # "COOLING" THEN w
        ELSE IF cooldown_target = None THEN [w EXCEPT !.P[p] = cooled]
        ELSE IF current_bed_temp > cooldown_target THEN [w EXCEPT !.P[p] = cooled]
        ELSE IF orders # {} /\ order.ejection_enabled
        THEN LET r == send_bambu_ejection_gcode(w.B[p], outcome)
                 ejecting == [cooled EXCEPT !.state = "EJECTING",
                                 !.ejection_processed = TRUE,
                                 !.ejection_in_progress = TRUE,
                                 !.manually_set = FALSE,
                                 !.cooldown_target_temp = None,
                                 !.cooldown_order_id = None]
             IN  IF r.success
                 THEN [w EXCEPT !.P[p] = ejecting, !.B[p] = r.cache,
                                !.sent = @ \cup {p}]
                 ELSE [w EXCEPT !.B[p] = r.cache,
                          !.P[p] = [ejecting EXCEPT !.state = "READY",
                                       !.ejection_processed = FALSE,
                                       !.ejection_in_progress = FALSE,
                                       !.manually_set = TRUE]]
        ELSE [w EXCEPT !.P[p] = [cooled EXCEPT !.state = "READY",
                                    !.manually_set = TRUE,
                                    !.cooldown_target_temp = None,
                                    !.cooldown_order_id = None]]

(* clear_stuck_ejection_locks *)
clear_stuck_ejection_locks(L) ==
    [p \in DOMAIN L |->
        IF p \in DOMAIN PRINTERS /\ PRINTERS[p].state # "EJECTING"
        THEN FALSE ELSE L[p]]

(* A variant that leaves finish_time as it is.                             *)
finish_time_kept(printer, new_state) == printer.finish_time

(* lines 232-234: finish_time on the transition to FINISHED *)
finish_time_on_transition(printer, new_state) ==
    IF new_state = "FINISHED" THEN SomeTime ELSE printer.finish_time

(* update_bambu_printer_states, for one printer *)
update_bambu_printer_state(printer, bambu_state) ==
    LET current_state == printer.state
        new_state == bambu_state.state
    IN  IF cooling_preserved(current_state) THEN printer
        ELSE IF /\ printer.manually_set /\ current_state = "READY"
                /\ new_state \notin {"PRINTING", "EJECTING", "PREPARE", "PAUSED"}
        THEN printer
        ELSE LET p1 == IF new_state = "PRINTING"
                       THEN [printer EXCEPT !.file = "job"] ELSE printer
             IN  IF new_state = current_state THEN p1
                 ELSE IF current_state = "FINISHED" /\ new_state = "READY" THEN p1
                 ELSE [p1 EXCEPT
                         !.state = new_state, !.status = "Other",
                         !.manually_set =
                             IF new_state \in {"PRINTING", "EJECTING", "PREPARE"}
                             THEN FALSE ELSE @,
                         !.finish_time =
                             finish_time_on_transition(printer, new_state)]

update_bambu_printer_states ==
    [p \in DOMAIN PRINTERS |->
        IF PType(p) = "bambu"
        THEN update_bambu_printer_state(PRINTERS[p], BAMBU_PRINTER_STATES[p])
        ELSE PRINTERS[p]]

(* The PRINTERS list, and line 307: the copies of its printers that are    *)
(* not in service mode.  The pass numbers its printers by their place in   *)
(* the second list (lines 343-368) and uses the number as an index into    *)
(* the first (lines 430, 690, 707, 744).                                   *)
InFleet(p) == p \in DOMAIN PRINTERS
printers_list == SelectSeq(PrinterSeq, InFleet)
Polled(p) == p \in DOMAIN PRINTERS /\ ~service_mode(PRINTERS[p])
all_printers == SelectSeq(PrinterSeq, Polled)
IndexOf(seq, x) == CHOOSE i \in 1..Len(seq) : seq[i] = x

minimal_printer(printer) ==
    [state |-> printer.state, manually_set |-> printer.manually_set,
     file |-> printer.file, order_id |-> printer.order_id,
     ejection_processed |-> printer.ejection_processed,
     ejection_in_progress |-> printer.ejection_in_progress,
     finish_time |-> printer.finish_time,
     count_incremented_for_current_job |-> printer.count_incremented_for_current_job]

(* get_printer_status_async up to the first await: lock sweep, Bambu cache *)
(* merge, snapshot of the printers to process.                             *)
PollBegin ==
    /\ poll.pc = "idle"
    /\ all_printers # <<>>
    /\ EJECTION_LOCKS' = clear_stuck_ejection_locks(EJECTION_LOCKS)
    /\ PRINTERS' = update_bambu_printer_states
    /\ poll' = [pc |-> "fetch",
                snap |-> [p \in Range(all_printers) |->
                            minimal_printer(update_bambu_printer_states[p])],
                indices |-> [p \in Range(all_printers) |->
                               printers_list[IndexOf(all_printers, p)]]]
    /\ UNCHANGED <<ORDERS, TOTAL_FILAMENT_CONSUMPTION, dist, EJECTION_STATES,
                   BAMBU_PRINTER_STATES, ejection_paused, testing,
                   mqttVars, ftpVars, sendVars>>

(* The two statements PollBegin starts with, as the steps they are for the *)
(* other threads: the lock sweep of line 295, and then the Bambu cache     *)
(* merge and the snapshot of the printers to process.                      *)
PollSweep ==
    /\ poll.pc = "idle"
    /\ all_printers # <<>>
    /\ EJECTION_LOCKS' = clear_stuck_ejection_locks(EJECTION_LOCKS)
    /\ poll' = [poll EXCEPT !.pc = "sweep"]
    /\ UNCHANGED <<PRINTERS, ORDERS, TOTAL_FILAMENT_CONSUMPTION, dist,
                   EJECTION_STATES, BAMBU_PRINTER_STATES, ejection_paused,
                   testing, mqttVars, ftpVars, sendVars>>

PollSnapshot ==
    /\ poll.pc = "sweep"
    /\ PRINTERS' = update_bambu_printer_states
    /\ poll' = [pc |-> "fetch",
                snap |-> [p \in Range(all_printers) |->
                            minimal_printer(update_bambu_printer_states[p])],
                indices |-> [p \in Range(all_printers) |->
                               printers_list[IndexOf(all_printers, p)]]]
    /\ UNCHANGED <<ORDERS, TOTAL_FILAMENT_CONSUMPTION, dist, EJECTION_LOCKS,
                   EJECTION_STATES, BAMBU_PRINTER_STATES, ejection_paused,
                   testing, mqttVars, ftpVars, sendVars>>

(* One printer of the batch: fetch_status, the merge, the pending upload.  *)
fetch_and_merge(w, p, obs, connected, outcome, upload_resp) ==
    LET printer == poll.snap[p]
        r == get_bambu_status(w.B[p], printer, connected)
        w1 == IF PType(p) = "bambu" THEN [w EXCEPT !.B[p] = r.cache] ELSE w
        data == IF PType(p) = "bambu" THEN r.data ELSE obs
    IN  pending_ejection_task(merge(w1, p, printer, data, outcome), p, upload_resp)

RECURSIVE fetch_all(_, _, _, _, _, _)
fetch_all(w, k, obs, connected, outcome, upload_resp) ==
    IF k > Len(PrinterSeq) THEN w
    ELSE fetch_all(
           IF PrinterSeq[k] \in DOMAIN poll.snap
           THEN fetch_and_merge(w, PrinterSeq[k], obs, connected, outcome, upload_resp)
           ELSE w,
           k + 1, obs, connected, outcome, upload_resp)

RECURSIVE monitor_all(_, _, _)
monitor_all(w, k, outcome) ==
    IF k > Len(PrinterSeq) THEN w
    ELSE monitor_all(
           IF PrinterSeq[k] \in DOMAIN w.P
           THEN cooling_monitoring(completion_monitoring(w, PrinterSeq[k]),
                                   PrinterSeq[k], outcome)
           ELSE w,
           k + 1, outcome)

(* The pass after the fetches: updates applied, failsafe, completion and   *)
(* COOLING monitoring.                                                     *)
printer_updates(obs, connected, outcome, upload_resp) ==
    LET w0 == [P |-> PRINTERS, L |-> EJECTION_LOCKS, E |-> EJECTION_STATES,
               B |-> BAMBU_PRINTER_STATES,
               U |-> [p \in DOMAIN poll.snap |-> EmptyUpdate], sent |-> {},
               timer |-> FALSE]
        w1 == fetch_all(w0, 1, obs, connected, outcome, upload_resp)
    IN  [w1 EXCEPT !.P = [q \in DOMAIN w1.P |->
             failsafe(IF updated(q)
                      THEN apply_update(w1.P[q], update_for(w1, q))
                      ELSE w1.P[q])]]

poll_result(obs, connected, outcome, upload_resp) ==
    monitor_all(printer_updates(obs, connected, outcome, upload_resp), 1, outcome)

PollFinish(obs, connected, outcome, upload_resp) ==
    /\ poll.pc = "fetch"
    /\ \E w \in {poll_result(obs, connected, outcome, upload_resp)} :
           /\ PRINTERS' = w.P
           /\ EJECTION_LOCKS' = w.L
           /\ EJECTION_STATES' = w.E
           /\ BAMBU_PRINTER_STATES' = w.B
           /\ dist' = [dist EXCEPT !.timer = @ \/ w.timer]
    /\ poll' = [pc |-> "idle", snap |-> <<>>, indices |-> <<>>]
    /\ UNCHANGED <<ORDERS, TOTAL_FILAMENT_CONSUMPTION, ejection_paused, testing,
                   mqttVars, ftpVars, sendVars>>

(* The tick as the steps it is for the other threads when a Prusa         *)
(* ejection is stashed: the merge pass, which queues the upload tasks, and *)
(* then the awaited uploads with the apply pass and the monitoring.        *)
merge_and_queue(w, p, obs, connected, outcome) ==
    LET printer == poll.snap[p]
        r == get_bambu_status(w.B[p], printer, connected)
        w1 == IF PType(p) = "bambu" THEN [w EXCEPT !.B[p] = r.cache] ELSE w
        data == IF PType(p) = "bambu" THEN r.data ELSE obs
        m == merge(w1, p, printer, data, outcome)
    IN  IF has_pending_ejection(m, p)
        THEN [queue_ejection_task(m, p) EXCEPT !.tasks = @ \cup {p}]
        ELSE m

RECURSIVE merge_all(_, _, _, _, _)
merge_all(w, k, obs, connected, outcome) ==
    IF k > Len(PrinterSeq) THEN w
    ELSE merge_all(
           IF PrinterSeq[k] \in DOMAIN poll.snap
           THEN merge_and_queue(w, PrinterSeq[k], obs, connected, outcome)
           ELSE w,
           k + 1, obs, connected, outcome)

PollMerge(obs, connected, outcome) ==
    /\ poll.pc = "fetch"
    /\ \E m \in {merge_all([P |-> PRINTERS, L |-> EJECTION_LOCKS,
                             E |-> EJECTION_STATES, B |-> BAMBU_PRINTER_STATES,
                             U |-> [p \in DOMAIN poll.snap |-> EmptyUpdate],
                             sent |-> {}, timer |-> FALSE, tasks |-> {}],
                            1, obs, connected, outcome)} :
           /\ PRINTERS' = m.P
           /\ EJECTION_LOCKS' = m.L
           /\ EJECTION_STATES' = m.E
           /\ BAMBU_PRINTER_STATES' = m.B
           /\ poll' = [pc |-> "upload", snap |-> poll.snap,
                       indices |-> poll.indices, U |-> m.U, tasks |-> m.tasks]
    /\ UNCHANGED <<ORDERS, TOTAL_FILAMENT_CONSUMPTION, dist, ejection_paused,
                   testing, mqttVars, ftpVars, sendVars>>

RECURSIVE upload_all(_, _, _)
upload_all(w, k, upload_resp) ==
    IF k > Len(PrinterSeq) THEN w
    ELSE upload_all(
           IF PrinterSeq[k] \in poll.tasks
           THEN async_send_ejection_gcode(w, PrinterSeq[k], upload_resp)
           ELSE w,
           k + 1, upload_resp)

PollUpload(upload_resp, outcome) ==
    /\ poll.pc = "upload"
    /\ \E w \in {upload_all([P |-> PRINTERS, L |-> EJECTION_LOCKS,
                              E |-> EJECTION_STATES, B |-> BAMBU_PRINTER_STATES,
                              U |-> poll.U, sent |-> {}, timer |-> FALSE],
                             1, upload_resp)} :
       \E r \in {monitor_all(
                    [w EXCEPT !.P = [q \in DOMAIN w.P |->
                        failsafe(IF updated(q)
                                 THEN apply_update(w.P[q], update_for(w, q))
                                 ELSE w.P[q])]],
                    1, outcome)} :
           /\ PRINTERS' = r.P
           /\ EJECTION_LOCKS' = r.L
           /\ EJECTION_STATES' = r.E
           /\ BAMBU_PRINTER_STATES' = r.B
           /\ dist' = [dist EXCEPT !.timer = @ \/ r.timer]
    /\ poll' = [pc |-> "idle", snap |-> <<>>, indices |-> <<>>]
    /\ UNCHANGED <<ORDERS, TOTAL_FILAMENT_CONSUMPTION, ejection_paused, testing,
                   mqttVars, ftpVars, sendVars>>

(* ---------------------------------------------------------------------- *)
(* Prusa ejection watchdog                                                 *)
(* ---------------------------------------------------------------------- *)
watchdog_complete(p, obs) ==
    IF get_printer_ejection_state(EJECTION_STATES, p).state = "completed" THEN TRUE
    ELSE IF obs.state \in {"IDLE", "READY", "OPERATIONAL", "FINISHED"} THEN TRUE
    ELSE IF PRINTERS[p].file = "ejection" THEN obs.file # "ejection"
    ELSE obs.file \in {NoFile, "unavailable"} /\ obs.state # "PRINTING"

enhanced_prusa_ejection_monitoring(p, obs) ==
    /\ p \in DOMAIN PRINTERS /\ PType(p) # "bambu"
    /\ PRINTERS[p].state = "EJECTING"
    /\ obs.state # "None"
    /\ watchdog_complete(p, obs)
    /\ PRINTERS' = [PRINTERS EXCEPT ![p] = MkPrinter(Upd(@, ejection_done_update))]
    /\ EJECTION_LOCKS' = release_ejection_lock(EJECTION_LOCKS, p)
    /\ EJECTION_STATES' = clear_printer_ejection_state(EJECTION_STATES, p)
    /\ dist' = [dist EXCEPT !.timer = TRUE]
    /\ UNCHANGED <<ORDERS, TOTAL_FILAMENT_CONSUMPTION, poll,
                   BAMBU_PRINTER_STATES, ejection_paused, testing,
                   mqttVars, ftpVars, sendVars>>

(* ---------------------------------------------------------------------- *)
(* Operator actions                                                        *)
(* ---------------------------------------------------------------------- *)
api_mark_printer_ready(p) ==
    /\ p \in DOMAIN PRINTERS
    /\ PRINTERS[p].state \in {"FINISHED", "EJECTING", "COOLING"}
    /\ PRINTERS' = [PRINTERS EXCEPT ![p] =
          [@ EXCEPT !.state = "READY", !.status = "Other", !.manually_set = TRUE,
                    !.file = NoFile, !.order_id = None,
                    !.cooldown_target_temp = None, !.cooldown_order_id = None]]
    /\ UNCHANGED <<ORDERS, TOTAL_FILAMENT_CONSUMPTION, dist, poll, ejectVars>>

api_pause_ejection ==
    /\ ~ejection_paused
    /\ ejection_paused' = TRUE
    /\ UNCHANGED <<PRINTERS, ORDERS, TOTAL_FILAMENT_CONSUMPTION, dist, poll,
                   EJECTION_LOCKS, EJECTION_STATES, BAMBU_PRINTER_STATES, testing,
                   mqttVars, ftpVars, sendVars>>

(* trigger_mass_ejection_for_finished_printers: the printers to queue *)
mass_ejection_ready ==
    {p \in DOMAIN PRINTERS :
        /\ PRINTERS[p].state = "FINISHED" /\ PRINTERS[p].status = "Print Complete (Ejection Paused)"
        /\ PRINTERS[p].order_id # None
        /\ \E o \in find_order(PRINTERS[p].order_id) : o.ejection_enabled
        /\ get_printer_ejection_state(EJECTION_STATES, p).state
              \notin {"in_progress", "completed"}}

api_resume_ejection ==
    /\ ejection_paused
    /\ ejection_paused' = FALSE
    /\ PRINTERS' = [p \in DOMAIN PRINTERS |->
          IF p \in mass_ejection_ready
          THEN [PRINTERS[p] EXCEPT !.state = "FINISHED", !.status = "Print Complete (Ejection Queued)",
                                   !.manually_set = FALSE]
          ELSE PRINTERS[p]]
    /\ EJECTION_STATES' = [p \in DOMAIN EJECTION_STATES |->
          IF p \in mass_ejection_ready
          THEN set_printer_ejection_state(EJECTION_STATES, p, "queued",
                                          "mass_ejection")[p]
          ELSE EJECTION_STATES[p]]
    /\ dist' = [dist EXCEPT !.timer = @ \/ mass_ejection_ready # {}]
    /\ UNCHANGED <<ORDERS, TOTAL_FILAMENT_CONSUMPTION, poll,
                   EJECTION_LOCKS, BAMBU_PRINTER_STATES, testing,
                   mqttVars, ftpVars, sendVars>>

(* test_ejection_code: the request starts sending G-code lines ...         *)
test_ejection_code(p) ==
    /\ p \in DOMAIN PRINTERS
    /\ p \notin testing
    /\ IF PType(p) = "bambu"
       THEN BAMBU_PRINTER_STATES[p].state # "PRINTING"
       ELSE PRINTERS[p].state \in {"IDLE", "READY", "FINISHED", "OPERATIONAL"}
    /\ testing' = testing \cup {p}
    /\ UNCHANGED <<PRINTERS, ORDERS, TOTAL_FILAMENT_CONSUMPTION, dist, poll,
                   EJECTION_LOCKS, EJECTION_STATES, BAMBU_PRINTER_STATES,
                   ejection_paused, mqttVars, ftpVars, sendVars>>

(* ... and returns after the last line.                                    *)
test_ejection_code_done(p) ==
    /\ p \in testing
    /\ testing' = testing \ {p}
    /\ UNCHANGED <<PRINTERS, ORDERS, TOTAL_FILAMENT_CONSUMPTION, dist, poll,
                   EJECTION_LOCKS, EJECTION_STATES, BAMBU_PRINTER_STATES,
                   ejection_paused, mqttVars, ftpVars, sendVars>>

(* ---------------------------------------------------------------------- *)
(* Specification                                                           *)
(* ---------------------------------------------------------------------- *)
Init ==
    /\ PRINTERS = <<>>
    /\ ORDERS = <<>>
    /\ TOTAL_FILAMENT_CONSUMPTION = 0
    /\ dist = [pc |-> "idle", jobs |-> <<>>, semaphore |-> 1, timer |-> FALSE]
    /\ poll = [pc |-> "idle", snap |-> <<>>, indices |-> <<>>]
    /\ EJECTION_LOCKS = [p \in Printers |-> FALSE]
    /\ EJECTION_STATES = [p \in Printers |-> no_ejection_state]
    /\ BAMBU_PRINTER_STATES = [p \in BambuPrinters |-> new_bambu_state]
    /\ ejection_paused = FALSE
    /\ testing = {}
    /\ MQTT_CLIENTS = <<>>
    /\ CONNECTION_RETRIES = <<>>
    /\ reconnect_timers = <<>>
    /\ client_loop = [p \in BambuPrinters |-> "stopped"]
    /\ ftp_upload = no_upload
    /\ ejection_send = no_send

(* Inputs that the state makes irrelevant are not enumerated.               *)
OnlyIf(cond, S, default) == IF cond THEN S ELSE {default}

Distributor(Responses) ==
    \/ DistBegin
    \/ \E i \in 1..Cardinality(Printers) : check_and_start_print(i)
    \/ \E i \in 1..Cardinality(Printers) :
          /\ dist.pc = "jobs" /\ i \in DOMAIN dist.jobs
          /\ \E upload_resp \in OnlyIf(PType(dist.jobs[i].name) # "bambu",
                                       Responses, 201) :
             \E retry_resp \in OnlyIf(upload_resp = 409, Responses, 0),
                outcome \in OnlyIf(PType(dist.jobs[i].name) = "bambu",
                                   PrintCommandOutcomes, "ok") :
                start_print(i, upload_resp, retry_resp, outcome)
    \/ DistApply

HasPrusa(S) == \E p \in S : PType(p) # "bambu"
HasBambu(S) == \E p \in S : PType(p) = "bambu"

(* A pass sends or uploads ejection G-code only for a printer that is      *)
(* FINISHED or COOLING, in PRINTERS, in the snapshot or in what its driver *)
(* reports.                                                                *)
MayEject(obs) ==
    \E p \in DOMAIN poll.snap :
        \/ poll.snap[p].state \in {"FINISHED", "COOLING"}
        \/ PRINTERS[printer_indices(p)].state \in {"FINISHED", "COOLING"}
        \/ IF PType(p) = "bambu" THEN BAMBU_PRINTER_STATES[p].state = "FINISHED"
           ELSE obs.state = "FINISHED"

PollerPass ==
    \/ PollBegin
    \/ /\ poll.pc = "fetch"
       /\ \E obs \in OnlyIf(HasPrusa(DOMAIN poll.snap), PrusaObs,
                              [state |-> "None", file |-> NoFile]),
             connected \in OnlyIf(HasBambu(DOMAIN poll.snap), BOOLEAN, TRUE) :
          \E outcome \in OnlyIf(HasBambu(DOMAIN poll.snap) /\ MayEject(obs),
                                SendOutcomes, "ok"),
             upload_resp \in OnlyIf(HasPrusa(DOMAIN poll.snap) /\ MayEject(obs),
                                    {201, 500}, 201) :
             PollFinish(obs, connected, outcome, upload_resp)

Watchdog ==
    \E p \in Printers, obs \in PrusaObs :
        enhanced_prusa_ejection_monitoring(p, obs)

Mqtt(Beds) ==
    \E p \in BambuPrinters :
        \/ /\ p \in DOMAIN PRINTERS
           /\ \E msg \in BambuMessages :
              \E bed_temper \in OnlyIf(msg # "M400", Beds, 0),
                 elapsed \in OnlyIf(BAMBU_PRINTER_STATES[p].state = "EJECTING"
                                      /\ msg # "M400", BOOLEAN, FALSE) :
                 on_message(p, msg, 0, FALSE, bed_temper, elapsed)
        \/ /\ BAMBU_PRINTER_STATES[p].state # "OFFLINE"
           /\ on_disconnect(p, 7)

(* Jobs: the order library, the distributor and the status poller, with    *)
(* orders that ask for no ejection.                                        *)
NextJobs ==
    \/ \E p \in Printers, group \in Groups : api_add_printer(p, group, MaxPrinters)
    \/ \E quantity \in Quantities, filament_g \in FilamentValues :
          api_create_order(quantity, FALSE, None, filament_g, Groups)
    \/ \E order_id \in 1..MaxOrders, quantity \in Quantities :
          api_update_order(order_id, quantity)
    \/ \E order_id \in 1..MaxOrders : api_delete_order(order_id)
    \/ Distributor(UploadStatus)
    \/ mass_ejection_timer
    \/ PollerPass
    \/ Mqtt({55})

SpecJobs == Init /\ [][NextJobs]_vars

(* ---------------------------------------------------------------------- *)
(* Properties of orders and job starts (SpecJobs)                          *)
(* ---------------------------------------------------------------------- *)
SentOf(orders, id) ==
    LET S == {orders[i].sent : i \in {k \in DOMAIN orders : orders[k].id = id}}
    IN  IF S = {} THEN 0 ELSE CHOOSE x \in S : TRUE

(* Jobs whose print request got its outcome in this step.                  *)
JobsDecided ==
    {i \in DOMAIN dist.jobs :
        /\ i \in DOMAIN dist'.jobs
        /\ dist.jobs[i].result = "checked"
        /\ dist'.jobs[i].result \in {"ok", "failed"}}

JobsStarted == {i \in JobsDecided : dist'.jobs[i].result = "ok"}

(* C1: for every order at all times 0 <= sent <= quantity (the part of the *)
(* claim about bounds; sent never decreases, but quantity can be set below *)
(* sent).                                                                  *)
C1_SentWithinQuantity ==
    \A i \in DOMAIN ORDERS :
        0 <= ORDERS[i].sent /\ ORDERS[i].sent <= ORDERS[i].quantity

(* C2: a print job is started on a printer only when the printer's state   *)
(* in PRINTERS is READY or IDLE at the moment the print request is sent.   *)
C2_StartOnlyWhenReady ==
    [][\A i \in JobsStarted :
          PRINTERS[dist.jobs[i].name].state \in {"READY", "IDLE"}]_vars

(* C8: the filament total grows by the order's filament_g exactly in the   *)
(* steps where a job's count_incremented_for_current_job goes from false   *)
(* to true, changes in no other step, and so never decreases.              *)
FlagFlips ==
    {i \in DOMAIN dist.jobs :
        /\ i \in DOMAIN dist'.jobs
        /\ ~dist.jobs[i].printer.count_incremented_for_current_job
        /\ dist'.jobs[i].printer.count_incremented_for_current_job}

C8_FilamentAtFlagFlip ==
    [][/\ TOTAL_FILAMENT_CONSUMPTION' >= TOTAL_FILAMENT_CONSUMPTION
       /\ (TOTAL_FILAMENT_CONSUMPTION' # TOTAL_FILAMENT_CONSUMPTION
              => FlagFlips # {})
       /\ \A i \in FlagFlips :
              TOTAL_FILAMENT_CONSUMPTION' =
                 TOTAL_FILAMENT_CONSUMPTION + dist.jobs[i].order.filament_g]_vars

C8_Witness ==
    /\ TOTAL_FILAMENT_CONSUMPTION = 2 * 5
    /\ \E i \in DOMAIN dist.jobs :
          /\ dist.jobs[i].result = "ok"
          /\ dist.jobs[i].printer.count_incremented_for_current_job

EjectionOrders ==
    \E ejection_enabled \in BOOLEAN, filament_g \in FilamentValues :
       \E cooldown_temp \in OnlyIf(ejection_enabled, CooldownValues, None) :
          api_create_order(EjectQty, ejection_enabled, cooldown_temp, filament_g,
                           Groups)

NextEjection ==
    \/ \E p \in Printers :
          \/ \E group \in Groups : api_add_printer(p, group, MaxPrinters)
          \/ api_mark_printer_ready(p)
    \/ EjectionOrders
    \/ api_pause_ejection
    \/ api_resume_ejection
    \/ mass_ejection_timer
    \/ Distributor({201, 500})
    \/ PollerPass
    \/ Watchdog
    \/ Mqtt(BedTemps)

SpecEjection == Init /\ [][NextEjection]_vars

(* Mass resume: a fleet of one Prusa printer and orders of MaxQty copies   *)
(* that ask for ejection; pause, resume and the resume's timer, the        *)
(* distributor and the poller.                                             *)
NextResume ==
    \/ \E group \in Groups : api_add_printer("P1", group, MaxPrinters)
    \/ \E filament_g \in FilamentValues :
          api_create_order(MaxQty, TRUE, None, filament_g, Groups)
    \/ api_pause_ejection
    \/ api_resume_ejection
    \/ mass_ejection_timer
    \/ Distributor({201, 500})
    \/ PollerPass

SpecResume == Init /\ [][NextResume]_vars

(* Groups: a fleet of up to GroupFleet printers in groups A and B, orders  *)
(* of MaxQty copies for one group, the distributor, and printers that      *)
(* answer the poller and report idle or printing.                          *)
AnsweringPrusa ==
    {obs \in PrusaObs : obs.state \in {"IDLE", "PRINTING"}
                         /\ obs.file \in {NoFile, "job"}}

NextGroups ==
    \/ \E p \in Printers, group \in GroupLabels :
          api_add_printer(p, group, GroupFleet)
    \/ \E group \in GroupLabels, filament_g \in FilamentValues :
          api_create_order(MaxQty, FALSE, None, filament_g, {group})
    \/ Distributor({201, 500})
    \/ PollBegin
    \/ \E obs \in AnsweringPrusa : PollFinish(obs, TRUE, "ok", 201)
    \/ \E p \in BambuPrinters, msg \in {"IDLE", "RUNNING"} :
          on_message(p, msg, 0, FALSE, 55, FALSE)

SpecGroups == Init /\ [][NextGroups]_vars

(* Service mode: a fleet of up to GroupFleet printers loaded in the order   *)
(* of the PRINTERS list, each in service mode or not, orders without       *)
(* ejection, the distributor, the poller with printers that answer, and    *)
(* the MQTT reports of an idle, printing or finished Bambu printer.        *)
LoadedBefore(p) ==
    \A k \in 1..Len(PrinterSeq) :
        PrinterSeq[k] = p => \A j \in 1..(k - 1) : PrinterSeq[j] \in DOMAIN PRINTERS

NextService ==
    \/ \E p \in Printers, in_service \in BOOLEAN, state \in {"OFFLINE", "READY"} :
          /\ LoadedBefore(p)
          /\ initialize_state(p, "Default", in_service, state, GroupFleet)
    \/ \E filament_g \in FilamentValues :
          api_create_order(MaxQty, FALSE, None, filament_g, Groups)
    \/ Distributor({201})
    \/ PollBegin
    \/ \E obs \in AnsweringPrusa : PollFinish(obs, TRUE, "ok", 201)
    \/ \E p \in BambuPrinters, msg \in {"IDLE", "RUNNING", "FINISH"} :
          on_message(p, msg, 0, FALSE, 55, FALSE)

SpecService == Init /\ [][NextService]_vars

(* Operator sends: the same without pause and resume, with the operator's  *)
(* test sends of an ejection code.                                         *)
NextOperator ==
    \/ \E p \in Printers :
          \/ \E group \in Groups : api_add_printer(p, group, MaxPrinters)
          \/ api_mark_printer_ready(p)
          \/ test_ejection_code(p)
          \/ test_ejection_code_done(p)
    \/ EjectionOrders
    \/ Distributor({201, 500})
    \/ mass_ejection_timer
    \/ PollerPass
    \/ Watchdog
    \/ Mqtt(BedTemps)

SpecOperator == Init /\ [][NextOperator]_vars

(* ---------------------------------------------------------------------- *)
(* Properties of the ejection flows                                        *)
(* ---------------------------------------------------------------------- *)
(* The ejection the manager started is still running on the printer: a     *)
(* Bambu printer has the G-code and has not acknowledged its M400, a Prusa *)
(* printer has the uploaded ejection file and its end was not yet seen.    *)
AutomatedFlow(p) ==
    /\ EJECTION_LOCKS[p]
    /\ IF PType(p) = "bambu"
       THEN /\ BAMBU_PRINTER_STATES[p].state = "EJECTING"
            /\ BAMBU_PRINTER_STATES[p].waiting_for_m400
       ELSE EJECTION_STATES[p].state = "running" /\ PRINTERS[p].state = "EJECTING"

(* C3: no printer has two ejection attempts in progress at once; in        *)
(* particular an operator's send is never started on a printer while the   *)
(* manager's ejection is running on it.                                    *)
C3_OneEjectionFlow ==
    [][\A p \in DOMAIN PRINTERS :
          (p \notin testing /\ p \in testing') => ~AutomatedFlow(p)]_vars

(* The ejection state manager records a flow from its start to its end.    *)
EjectionFlowActive(p) ==
    EJECTION_STATES[p].state \in {"in_progress", "running"}

(* C4: a printer's ejection lock is held exactly while an ejection flow is *)
(* active for it.                                                          *)
C4_LockIffFlowActive ==
    \A p \in DOMAIN PRINTERS : EJECTION_LOCKS[p] <=> EjectionFlowActive(p)

(* C5: a printer in COOLING has a cooldown_target_temp, a cooldown_order_id *)
(* and is a Bambu printer.                                                 *)
C5_CoolingFields ==
    \A p \in DOMAIN PRINTERS :
        PRINTERS[p].state = "COOLING"
           => /\ PRINTERS[p].cooldown_target_temp \notin {Absent, None}
              /\ PRINTERS[p].cooldown_order_id # None
              /\ PType(p) = "bambu"

(* C6: at a poller pass that finds a COOLING printer with the cached bed   *)
(* temperature at or below its order's cooldown_temp, the printer goes to  *)
(* EJECTING and the ejection G-code is sent (the send shows in the cache). *)
C6_CoolDownGate ==
    [][\A p \in DOMAIN PRINTERS :
          (/\ poll.pc = "fetch" /\ poll'.pc = "idle"
           /\ PRINTERS[p].state = "COOLING"
           /\ \E o \in find_order(PRINTERS[p].order_id) :
                 /\ o.ejection_enabled /\ o.cooldown_temp # None
                 /\ BAMBU_PRINTER_STATES[p].bed_temp <= o.cooldown_temp)
          => \/ PRINTERS'[p].state = "EJECTING"
             \/ BAMBU_PRINTER_STATES'[p] # BAMBU_PRINTER_STATES[p]]_vars

(* C7: a printer in FINISHED has a finish_time.                            *)
C7_FinishedHasFinishTime ==
    \A p \in DOMAIN PRINTERS :
        PRINTERS[p].state = "FINISHED" => PRINTERS[p].finish_time # NoTime

C7_Witness ==
    \E p \in DOMAIN PRINTERS :
        /\ PType(p) = "bambu"
        /\ PRINTERS[p].state = "FINISHED"
        /\ PRINTERS[p].finish_time = SomeTime
        /\ PRINTERS[p].order_id # None

(* The shared state a poller pass starts from.                             *)
CurrentWorld ==
    [P |-> PRINTERS, L |-> EJECTION_LOCKS, E |-> EJECTION_STATES,
     B |-> BAMBU_PRINTER_STATES,
     U |-> [q \in DOMAIN poll.snap |-> EmptyUpdate], sent |-> {},
     timer |-> FALSE]

(* Printers of the running pass whose record carries one of the two flags  *)
(* and did not change since the snapshot.                                  *)
HandledPrinters ==
    {p \in DOMAIN poll.snap :
        /\ poll.pc = "fetch"
        /\ poll.snap[p].ejection_processed \/ poll.snap[p].ejection_in_progress
        /\ poll.snap[p] = minimal_printer(PRINTERS[p])}

(* C10: once ejection_processed or ejection_in_progress is set, invoking    *)
(* the FINISHED handler leaves the printer's state as it is, takes no      *)
(* ejection lock and sends no ejection G-code.                             *)
C10_RepeatedHandlerNoOp ==
    \A p \in HandledPrinters, outcome \in SendOutcomes :
        LET w == handle_finished_state_ejection(CurrentWorld, p, poll.snap[p],
                                                EmptyUpdate, outcome)
        IN  /\ w.L = EJECTION_LOCKS
            /\ w.E = EJECTION_STATES
            /\ w.B = BAMBU_PRINTER_STATES
            /\ w.P = PRINTERS
            /\ w.sent = {}
            /\ failsafe(apply_update(PRINTERS[p], w.U[p])).state = PRINTERS[p].state

C10_Witness ==
    \E p \in HandledPrinters :
        /\ PRINTERS[p].state = "FINISHED"
        /\ PRINTERS[p].ejection_processed
        /\ ~EJECTION_LOCKS[p] /\ ~ejection_paused
        /\ \E o \in find_order(PRINTERS[p].order_id) : o.ejection_enabled

(* Printers of the running pass that the FINISHED handler has not handled  *)
(* yet and whose order asks for ejection.                                  *)
EjectionCandidates ==
    {p \in DOMAIN poll.snap :
        /\ poll.pc = "fetch"
        /\ ~poll.snap[p].ejection_processed
        /\ ~poll.snap[p].ejection_in_progress
        /\ \E o \in find_order(poll.snap[p].order_id) : o.ejection_enabled}

(* C11: while ejection_paused is true the FINISHED handler answers, for a  *)
(* printer whose order has ejection enabled, state FINISHED with status    *)
(* "Print Complete (Ejection Paused)", marks the ejection state queued     *)
(* with reason global_pause, takes no lock, sends nothing and starts       *)
(* neither COOLING nor EJECTING.                                           *)
C11_PausedHandlerHolds ==
    ejection_paused =>
        \A p \in EjectionCandidates, outcome \in SendOutcomes :
            LET w == handle_finished_state_ejection(CurrentWorld, p, poll.snap[p],
                                                    EmptyUpdate, outcome)
            IN  /\ w.U[p].state = "FINISHED"
                /\ w.U[p].status = "Print Complete (Ejection Paused)"
                /\ w.E[p] = [state |-> "queued", metadata |-> "global_pause"]
                /\ \A q \in DOMAIN w.E : q # p => w.E[q] = EJECTION_STATES[q]
                /\ w.L = EJECTION_LOCKS
                /\ w.B = BAMBU_PRINTER_STATES
                /\ w.P = PRINTERS
                /\ w.sent = {}

C11_Witness ==
    /\ ejection_paused
    /\ \E p \in DOMAIN PRINTERS :
          /\ PRINTERS[p].state = "FINISHED"
          /\ PRINTERS[p].status = "Print Complete (Ejection Paused)"
          /\ EJECTION_STATES[p] = [state |-> "queued", metadata |-> "global_pause"]
          /\ \E o \in find_order(PRINTERS[p].order_id) : o.ejection_enabled

(* Printers that the mass resume queued for ejection.                      *)
MassResumeQueued ==
    {p \in DOMAIN PRINTERS :
        /\ PRINTERS[p].state = "FINISHED"
        /\ PRINTERS[p].status = "Print Complete (Ejection Queued)"
        /\ EJECTION_STATES[p] = [state |-> "queued", metadata |-> "mass_ejection"]
        /\ \E o \in find_order(PRINTERS[p].order_id) : o.ejection_enabled}

(* C12: the distribution pass that the mass-resume timer invokes leaves    *)
(* every printer queued by the resume in an ejection attempt (COOLING or   *)
(* EJECTING, or its ejection lock taken).                                  *)
C12_MassResumeStartsEjection ==
    [][(/\ dist.timer /\ ~dist'.timer
        /\ dist.pc = "idle" /\ dist'.pc = "idle")
       => \A p \in MassResumeQueued :
             \/ PRINTERS'[p].state \in {"EJECTING", "COOLING"}
             \/ EJECTION_LOCKS'[p]]_vars

(* Each running pass holds one permit of the semaphore.                    *)
OnePassAtMost ==
    /\ dist.semaphore \in {0, 1}
    /\ dist.pc = "jobs" <=> dist.semaphore = 0

EligiblePrinters(o) ==
    {p \in DOMAIN PRINTERS :
        PRINTERS[p].state \in {"READY", "IDLE"} /\ PRINTERS[p].group \in o.groups}

JobsOf(jobs, o) == {i \in DOMAIN jobs : jobs[i].order.id = o.id}

(* C14: a distribution pass gives an order's copies only to ready printers *)
(* whose group is one of the order's groups, one job per printer, never    *)
(* more than the order still needs, and it stops short of that only when   *)
(* every such printer has a job; with no such printer no pass starts a     *)
(* job: the distributor, every order's sent and the filament total stay as *)
(* they are.                                                               *)
C14_GroupEligibility ==
    [][/\ (dist.pc = "idle" /\ dist'.pc = "jobs") =>
             /\ \A i, j \in DOMAIN dist'.jobs :
                    dist'.jobs[i].name = dist'.jobs[j].name => i = j
             /\ \A k \in DOMAIN ORDERS :
                    LET o == ORDERS[k]
                        n == Cardinality(JobsOf(dist'.jobs, o))
                    IN  /\ \A i \in JobsOf(dist'.jobs, o) :
                              dist'.jobs[i].name \in EligiblePrinters(o)
                        /\ IF o.deleted \/ o.sent >= o.quantity THEN n = 0
                           ELSE \/ n = o.quantity - o.sent
                                \/ /\ n < o.quantity - o.sent
                                   /\ \A p \in EligiblePrinters(o) :
                                         \E i \in DOMAIN dist'.jobs :
                                             dist'.jobs[i].name = p
       /\ (dist.pc = "idle" /\ \A k \in DOMAIN ORDERS : EligiblePrinters(ORDERS[k]) = {})
             => /\ UNCHANGED <<dist, TOTAL_FILAMENT_CONSUMPTION>>
                /\ \A id \in 1..MaxOrders :
                      SentOf(ORDERS', id) = SentOf(ORDERS, id)]_vars

(* The scenario: P1 in group A printing the one copy it was given, the     *)
(* other printer ready in group B, the order for group A at sent = 1 of 2. *)
C14_Witness ==
    /\ DOMAIN PRINTERS = {"P1", "B2"}
    /\ PRINTERS["P1"].group = "A" /\ PRINTERS["B2"].group = "B"
    /\ PRINTERS["P1"].state = "PRINTING"
    /\ PRINTERS["B2"].state \in {"READY", "IDLE"}
    /\ dist.pc = "idle"
    /\ \E k \in DOMAIN ORDERS :
          /\ ORDERS[k].groups = {"A"}
          /\ ORDERS[k].quantity = 2 /\ ORDERS[k].sent = 1

(* ---------------------------------------------------------------------- *)
(* Properties of the reconcile tick                                        *)
(* ---------------------------------------------------------------------- *)
(* The step that ends a reconcile tick.                                    *)
TickEnds == poll.pc = "fetch" /\ poll'.pc = "idle"

ManualStates == {"READY", "PRINTING", "EJECTING"}

ManualViolation(printer) ==
    printer.manually_set /\ printer.state \notin ManualStates

(* C15: at the end of every reconcile tick every printer with manually_set *)
(* is READY, PRINTING or EJECTING, and the failsafe turns a printer that   *)
(* has manually_set in another state into a READY printer with             *)
(* manually_set.                                                           *)
C15_ManualFailsafe ==
    [][/\ TickEnds => \A p \in DOMAIN PRINTERS' : ~ManualViolation(PRINTERS'[p])
       /\ \A p \in DOMAIN PRINTERS' :
             ManualViolation(PRINTERS'[p])
                => /\ failsafe(PRINTERS'[p]).state = "READY"
                   /\ failsafe(PRINTERS'[p]).manually_set]_vars

C15_Witness ==
    /\ poll.pc = "fetch"
    /\ \E p \in DOMAIN PRINTERS : ManualViolation(PRINTERS[p])

(* What the reconcile tick makes of printer p when a Prusa observation obs *)
(* arrives for it and its record did not change since the snapshot.        *)
AfterObservation(p, obs) ==
    LET w == merge(CurrentWorld, p, poll.snap[p], obs, "ok")
    IN  failsafe(apply_update(PRINTERS[p], w.U[p]))

(* C16: a PRINTING observation for a printer with manually_set clears the  *)
(* flag and the printer takes the observed state, for a Bambu printer in   *)
(* the cache merge and for a Prusa printer in the reconcile tick.          *)
C16_ManualClearedOnActivity ==
    \A p \in DOMAIN PRINTERS :
        PRINTERS[p].manually_set =>
            IF PType(p) = "bambu"
            THEN LET r == update_bambu_printer_state(PRINTERS[p],
                              [BAMBU_PRINTER_STATES[p] EXCEPT !.state = "PRINTING"])
                 IN  PRINTERS[p].state # "COOLING"
                        => r.state = "PRINTING" /\ ~r.manually_set
            ELSE (/\ poll.pc = "fetch" /\ p \in DOMAIN poll.snap
                  /\ poll.snap[p] = minimal_printer(PRINTERS[p]))
                    => LET r == AfterObservation(p, [state |-> "PRINTING",
                                                     file |-> "job"])
                       IN  r.state = "PRINTING" /\ ~r.manually_set

(* The step is the operator's mark-ready of printer p.                     *)
MarkedReady(p) ==
    /\ poll' = poll
    /\ PRINTERS'[p] = [PRINTERS[p] EXCEPT
          !.state = "READY", !.status = "Other", !.manually_set = TRUE,
          !.file = NoFile, !.order_id = None,
          !.cooldown_target_temp = None, !.cooldown_order_id = None]

(* The step is a reconcile tick in which an ejection of printer p ran: its *)
(* G-code was sent during the tick or the cache reports it complete.       *)
EjectionCompleted(p) ==
    /\ TickEnds
    /\ \/ BAMBU_PRINTER_STATES[p].ejection_complete
       \/ BAMBU_PRINTER_STATES'[p].state = "EJECTING"

(* C17: a Bambu printer stored as FINISHED becomes READY only in a step    *)
(* where the operator marks it ready or an ejection completes; an MQTT     *)
(* report of READY does not move it.                                       *)
C17_FinishedSticky ==
    [][\A p \in DOMAIN PRINTERS :
          (/\ PType(p) = "bambu"
           /\ PRINTERS[p].state = "FINISHED"
           /\ PRINTERS'[p].state = "READY")
          => MarkedReady(p) \/ EjectionCompleted(p)]_vars

(* What the COOLING pass can make of printer p in the current state.       *)
CoolingDecision(p) ==
    {cooling_monitoring(CurrentWorld, p, outcome).P[p] : outcome \in SendOutcomes}

NoAnswer == [state |-> "None", file |-> NoFile]

(* C19: a Prusa printer of the running tick for which the driver returns   *)
(* nothing is OFFLINE at the end of the tick, with no file, manually_set   *)
(* and ejection_in_progress false and finish_time null, whatever its       *)
(* record was.                                                             *)
C19_OfflineZeroed ==
    poll.pc = "fetch" =>
        \A p \in DOMAIN poll.snap :
            PType(p) # "bambu" =>
                LET r == poll_result(NoAnswer, TRUE, "ok", 201).P[p]
                IN  /\ r.state = "OFFLINE"
                    /\ r.file \in {"None", NoFile}
                    /\ ~r.manually_set
                    /\ ~r.ejection_in_progress
                    /\ r.finish_time = NoTime

(* The driver states the merge ignores during an ejection.                 *)
IdleReports == {"IDLE", "READY", "OPERATIONAL", "FINISHED"}

(* Printer p is ejecting, in its record and in the snapshot of the running *)
(* tick.                                                                   *)
EjectingInTick(p) ==
    /\ poll.pc = "fetch" /\ p \in DOMAIN poll.snap
    /\ poll.snap[p].state = "EJECTING" /\ poll.snap[p].ejection_in_progress
    /\ PRINTERS[p].state = "EJECTING"

(* What the driver can report for printer p in the running tick: any Prusa *)
(* answer, the cached state of a connected Bambu printer.                  *)
DriverReports(p) ==
    IF PType(p) = "bambu"
    THEN {[state |-> BAMBU_PRINTER_STATES[p].state, file |-> "job"]}
    ELSE PrusaObs

(* Printer p keeps EJECTING through the running tick for every idle report *)
(* of the driver, unless the completion detector fires.                    *)
StaysEjecting(p) ==
    \A obs \in DriverReports(p), outcome \in SendOutcomes :
        obs.state \in IdleReports =>
            LET a == printer_updates(obs, TRUE, outcome, 201)
                r == poll_result(obs, TRUE, outcome, 201)
            IN  /\ a.P[p].state = "EJECTING"
                /\ r.P[p].state # "EJECTING" => ejection_complete(a, p)

ProcessedReady(p) ==
    /\ poll.pc = "fetch" /\ p \in DOMAIN poll.snap
    /\ poll.snap[p] = minimal_printer(PRINTERS[p])
    /\ PRINTERS[p].state = "READY" /\ PRINTERS[p].ejection_processed

(* The step is the start of a reconcile tick, with its Bambu cache merge.   *)
TickBegins == poll.pc = "idle" /\ poll'.pc = "fetch"

(* C21: a FINISHED observation for a printer that is READY with            *)
(* ejection_processed leaves it READY and starts no ejection: in the merge *)
(* of a tick no G-code is sent and the printer's lock and ejection state   *)
(* stay as they are, and the Bambu cache merge at the start of a tick      *)
(* leaves the printer READY as well.                                       *)
C21_StaleFinishedIgnored ==
    [][\A p \in DOMAIN PRINTERS :
        /\ ProcessedReady(p) =>
              \A obs \in DriverReports(p), outcome \in SendOutcomes :
                  obs.state = "FINISHED" =>
                      LET r == poll_result(obs, TRUE, outcome, 201)
                      IN  /\ r.P[p].state = "READY"
                          /\ p \notin r.sent
                          /\ r.L[p] = EJECTION_LOCKS[p]
                          /\ r.E[p] = EJECTION_STATES[p]
        /\ (/\ TickBegins /\ PType(p) = "bambu"
            /\ PRINTERS[p].state = "READY" /\ PRINTERS[p].ejection_processed
            /\ BAMBU_PRINTER_STATES[p].state = "FINISHED")
              => PRINTERS'[p].state = "READY"]_vars

(* ---------------------------------------------------------------------- *)
(* Ejection completion                                                     *)
(* ---------------------------------------------------------------------- *)
(* The record of a printer whose ejection completed.                       *)
Completed(printer) ==
    /\ printer.state = "READY" /\ printer.manually_set
    /\ printer.manual_timeout = MANUAL_TIMEOUT
    /\ ~printer.ejection_in_progress /\ ~printer.ejection_processed
    /\ printer.last_ejection_time = SomeTime

(* The step is the watchdog's completion of printer p's ejection.          *)
WatchdogCompletes(p) ==
    /\ poll' = poll /\ ~MarkedReady(p)
    /\ PRINTERS[p].state = "EJECTING" /\ PRINTERS'[p].state = "READY"

(* The merge of the running tick takes, for printer p and observation obs, *)
(* the rule for a stored EJECTING printer that answers IDLE or             *)
(* OPERATIONAL.                                                            *)
ApiIdleRule(p, obs) ==
    /\ PRINTERS[p].state = "EJECTING"
    /\ obs.state \in {"IDLE", "OPERATIONAL"}
    /\ ~poll.snap[p].manually_set
    /\ ~(poll.snap[p].ejection_processed /\ poll.snap[p].state = "READY")
    /\ ~ejection_maintained(poll.snap[p], obs.state)

(* C22: whichever detector observes the completion of an ejection (the     *)
(* watchdog, the merge rule for an idle answer, the completion pass), the  *)
(* printer becomes READY with manually_set and manual_timeout now + 300 s, *)
(* its ejection flags cleared and last_ejection_time recorded, its lock is *)
(* released and a distribution pass is scheduled.                          *)
C22_CompletionEffects ==
    [][\A p \in DOMAIN PRINTERS :
        /\ WatchdogCompletes(p)
              => Completed(PRINTERS'[p]) /\ ~EJECTION_LOCKS'[p] /\ dist'.timer
        /\ (/\ poll.pc = "fetch" /\ p \in DOMAIN poll.snap
            /\ PRINTERS[p].state = "EJECTING")
              => \A obs \in DriverReports(p), outcome \in SendOutcomes :
                    LET a == printer_updates(obs, TRUE, outcome, 201)
                        r == poll_result(obs, TRUE, outcome, 201)
                    IN  /\ ApiIdleRule(p, obs)
                              => Completed(r.P[p]) /\ ~r.L[p] /\ r.timer
                        /\ (a.P[p].state = "EJECTING" /\ ejection_complete(a, p))
                              => Completed(r.P[p]) /\ ~r.L[p] /\ r.timer]_vars

(* ---------------------------------------------------------------------- *)
(* Atomicity of the reconcile tick                                         *)
(* ---------------------------------------------------------------------- *)
(* The fleet as a reader of PRINTERS sees it after the merge pass of the   *)
(* running tick, while the upload tasks are awaited and before the write   *)
(* lock of the apply pass is taken.                                        *)
MidTick(obs, connected, outcome, upload_resp) ==
    fetch_all(CurrentWorld, 1, obs, connected, outcome, upload_resp).P

(* C23: the updates a reconcile tick computes reach PRINTERS only in the   *)
(* apply pass: between the merge pass and the apply pass a reader sees the *)
(* fleet as it was before the merge, never part of the tick's values.      *)
C23_TickAtomic ==
    poll.pc = "fetch" =>
        \A obs \in PrusaObs, connected \in BOOLEAN,
           outcome \in SendOutcomes, upload_resp \in {201, 500} :
            MidTick(obs, connected, outcome, upload_resp) = PRINTERS

(* ---------------------------------------------------------------------- *)
(* Service mode                                                            *)
(* ---------------------------------------------------------------------- *)
(* The step belongs to a reconcile tick.                                   *)
TickStep == poll' # poll

(* C24: a printer in service mode is not part of a reconcile tick's        *)
(* snapshot, no step of a tick changes any field of its record, and no     *)
(* distribution pass gives it a job.                                       *)
C24_ServiceModeExcluded ==
    [][\A p \in DOMAIN PRINTERS :
          service_mode(PRINTERS[p]) =>
              /\ p \notin DOMAIN poll'.snap
              /\ TickStep => PRINTERS'[p] = PRINTERS[p]
              /\ \A i \in DOMAIN dist'.jobs : dist'.jobs[i].name # p]_vars

(* Bambu connection: one Bambu printer, its MQTT client's callbacks, the   *)
(* reconnection timers and the reports of the printer.                     *)
PRINT_PREPARATION_FAILED == 50348044
PrintErrors == {0, NO_ACTIVE_JOB, PRINT_PREPARATION_FAILED}

NextBambu ==
    \/ \E p \in BambuPrinters : api_add_printer(p, "Default", MaxPrinters)
    \/ \E p \in BambuPrinters, raised \in BOOLEAN : ConnectBegin(p, raised)
    \/ \E p \in BambuPrinters : ConnectFinish(p)
    \/ \E p \in BambuPrinters, rc \in {0, 5} : on_connect(p, rc)
    \/ \E p \in BambuPrinters, rc \in {0, 7} :
          /\ client_loop[p] # "stopped"
          /\ on_disconnect(p, rc)
    \/ \E k \in 1..MaxTimers, raised \in BOOLEAN : reconnect_bambu_printer(k, raised)
    \/ \E p \in BambuPrinters : disconnect_bambu_printer(p)
    \/ \E p \in BambuPrinters, msg \in GcodeStates, print_error \in PrintErrors,
          hms \in BOOLEAN :
          on_message(p, msg, print_error, hms, 55, FALSE)

SpecBambu == Init /\ [][NextBambu]_vars

(* ---------------------------------------------------------------------- *)
(* MQTT disconnects                                                        *)
(* ---------------------------------------------------------------------- *)
UnexpectedDisconnect(p) == client_loop[p] # "stopped" /\ on_disconnect(p, 7)

(* The reconnection the n-th disconnect in a row asks for.                 *)
Scheduled(p, n) ==
    IF n <= 5
    THEN reconnect_timers' =
           Append(reconnect_timers,
                  [name |-> p, delay |-> IF 5 * n < 30 THEN 5 * n ELSE 30])
    ELSE reconnect_timers' = reconnect_timers

(* C26: an unexpected disconnect sets the cache OFFLINE and schedules the  *)
(* n-th reconnection in a row after min(5n, 30) seconds, no more than 5 in *)
(* a row; a successful connect resets the count.                           *)
C26_Reconnection ==
    [][\A p \in BambuPrinters :
          /\ UnexpectedDisconnect(p)
                => /\ BAMBU_PRINTER_STATES'[p].state = "OFFLINE"
                   /\ Scheduled(p, retries_of(p) + 1)
          /\ on_connect(p, 0)
                => (p \in DOMAIN CONNECTION_RETRIES' => CONNECTION_RETRIES'[p] = 0)]_vars

(* ---------------------------------------------------------------------- *)
(* Bambu state mapping                                                     *)
(* ---------------------------------------------------------------------- *)
ClaimedState(gcode_state, print_error) ==
    CASE gcode_state = "IDLE" -> "READY"
      [] gcode_state = "PREPARE" -> "PREPARE"
      [] gcode_state = "RUNNING" -> "PRINTING"
      [] gcode_state = "PAUSE" -> "PAUSED"
      [] gcode_state = "FINISH" -> "FINISHED"
      [] gcode_state = "FAILED" ->
            IF print_error = NO_ACTIVE_JOB THEN "READY" ELSE "ERROR"

(* C27: a report without alerts of a printer that is not ejecting sets the *)
(* cached state to READY for IDLE, PREPARE for PREPARE, PRINTING for       *)
(* RUNNING, PAUSED for PAUSE, FINISHED for FINISH, and for FAILED to READY *)
(* with the code 0x03000000 and to ERROR with any other code.              *)
C27_StateMapping ==
    [][\A p \in BambuPrinters, msg \in GcodeStates, print_error \in PrintErrors :
          (/\ BAMBU_PRINTER_STATES[p].state # "EJECTING"
           /\ on_message(p, msg, print_error, FALSE, 55, FALSE))
             => BAMBU_PRINTER_STATES'[p].state = ClaimedState(msg, print_error)]_vars

(* ---------------------------------------------------------------------- *)
(* Bambu ejection safety timeout                                           *)
(* ---------------------------------------------------------------------- *)
(* The cache says the ejection is done.                                    *)
CacheDone(p) ==
    /\ BAMBU_PRINTER_STATES[p].state = "READY"
    /\ BAMBU_PRINTER_STATES[p].ejection_complete

(* A report that arrives for an EJECTING cache more than 15 s after the    *)
(* ejection started.                                                       *)
LateReport(p) ==
    /\ BAMBU_PRINTER_STATES[p].state = "EJECTING"
    /\ \E msg \in GcodeStates, bed_temper \in BedTemps :
          on_message(p, msg, 0, FALSE, bed_temper, TRUE)

ReportedBeds == {0, 55}

NextCooling ==
    \/ \E p \in BambuPrinters : api_add_printer(p, "Default", MaxPrinters)
    \/ \E filament_g \in FilamentValues :
          api_create_order(EjectQty, TRUE, 40, filament_g, Groups)
    \/ api_pause_ejection
    \/ api_resume_ejection
    \/ mass_ejection_timer
    \/ Distributor({201})
    \/ PollerPass
    \/ Mqtt(ReportedBeds)

SpecCooling == Init /\ [][NextCooling]_vars

(* ---------------------------------------------------------------------- *)
(* Lock nesting                                                            *)
(* ---------------------------------------------------------------------- *)
(* Pairs <<lock held, lock acquired>> of printers_rwlock and orders_lock.  *)
(* trigger_mass_ejection_for_finished_printers looks the order of a paused *)
(* FINISHED printer up under the read lock.                                *)
mass_ejection_lock_nesting ==
    IF \E p \in DOMAIN PRINTERS :
          /\ PRINTERS[p].state = "FINISHED"
          /\ PRINTERS[p].status = "Print Complete (Ejection Paused)"
          /\ PRINTERS[p].order_id # None
    THEN {<<"printers_read", "orders">>} ELSE {}

(* The COOLING pass runs inside the write lock of the apply pass and looks *)
(* the order up once the bed is at or below the target.                    *)
cooling_lock_nesting(w, p) ==
    LET printer == w.P[p]
        cooldown_target == IF printer.cooldown_target_temp = Absent THEN 0
                           ELSE printer.cooldown_target_temp
        current_bed_temp == IF p \in DOMAIN w.B THEN w.B[p].bed_temp ELSE 0
    IN  IF /\ printer.state = "COOLING"
           /\ cooldown_target # None
           /\ current_bed_temp <= cooldown_target
        THEN {<<"printers_write", "orders">>} ELSE {}

tick_lock_nesting(obs, connected, outcome, upload_resp) ==
    UNION {cooling_lock_nesting(printer_updates(obs, connected, outcome,
                                                upload_resp), p) :
              p \in DOMAIN PRINTERS}

(* api_update_order holds the orders lock and takes no other lock.         *)
api_update_order_lock_nesting == {}

AllowedNesting == {<<"printers_read", "orders">>}

(* C28: the only nesting of the printers lock and the orders lock is the   *)
(* orders lock taken under the printers read lock: never the printers lock *)
(* under the orders lock, never the orders lock under the write lock.      *)
C28_LockOrder ==
    /\ mass_ejection_lock_nesting \subseteq AllowedNesting
    /\ api_update_order_lock_nesting \subseteq AllowedNesting
    /\ poll.pc = "fetch" =>
          \A obs \in PrusaObs, connected \in BOOLEAN, outcome \in SendOutcomes :
              tick_lock_nesting(obs, connected, outcome, 201) \subseteq AllowedNesting

(* ---------------------------------------------------------------------- *)
(* Soft-deleted orders                                                     *)
(* ---------------------------------------------------------------------- *)
IsDeleted(order_id) ==
    \E k \in DOMAIN ORDERS : ORDERS[k].id = order_id /\ ORDERS[k].deleted

(* The step ends a distribution pass; the pass then broadcasts.            *)
PassEnds == dist.pc = "jobs" /\ dist'.pc = "idle"

(* C25: a deleted order is in no answer of the orders endpoint and in no   *)
(* status broadcast (the reconcile tick and the distribution pass each end *)
(* with one), and no job is started for an order that is deleted.          *)
C25_DeletedExcluded ==
    [][/\ \A k \in DOMAIN api_get_orders : ~api_get_orders[k].deleted
       /\ (TickEnds \/ PassEnds)
             => \A k \in DOMAIN status_update_orders(ORDERS') :
                   ~status_update_orders(ORDERS')[k].deleted
       /\ \A i \in JobsStarted : ~IsDeleted(dist.jobs[i].order.id)]_vars

(* ---------------------------------------------------------------------- *)
(* A pass with more jobs than a sub-batch                                  *)
(* ---------------------------------------------------------------------- *)
(* A stored fleet of BatchFleet Prusa printers, all READY, and one order   *)
(* with a copy for each of them.                                           *)
BatchSeq == <<"P1", "P3", "P4", "P5", "P6", "P7", "P8", "P9">>
BatchPrinters == {BatchSeq[k] : k \in 1..BatchFleet}

BatchLoadedBefore(p) ==
    \A k \in 1..BatchFleet :
        BatchSeq[k] = p => \A j \in 1..(k - 1) : BatchSeq[j] \in DOMAIN PRINTERS

NextBatches ==
    \/ \E p \in BatchPrinters :
          /\ BatchLoadedBefore(p)
          /\ initialize_state(p, "Default", FALSE, "READY", BatchFleet)
    \/ api_create_order(BatchFleet, FALSE, None, 5, Groups)
    \/ DistBegin
    \/ \E i \in 1..BatchFleet : check_and_start_print(i)
    \/ \E i \in 1..BatchFleet, upload_resp \in {201, 500} :
          start_print(i, upload_resp, 0, "ok")
    \/ DistApply

SpecBatches == Init /\ [][NextBatches]_vars

(* The sub-batch size the configuration names.                             *)
Config_MAX_CONCURRENT_JOBS == 5

(* The jobs of the pass whose request has been issued and is not answered. *)
in_flight == {i \in DOMAIN dist.jobs : dist.jobs[i].result = "checked"}

(* C30: the jobs of a pass run in sub-batches of at most 5 concurrent jobs: *)
(* a job is taken up only when every job of the sub-batches of 5 before it  *)
(* is done, so that at most 5 jobs are in flight at a time.                 *)
C30_SubBatches ==
    [][/\ \A i \in DOMAIN dist.jobs :
             (/\ dist.pc = "jobs" /\ dist'.pc = "jobs"
              /\ dist.jobs[i].result = "pending"
              /\ dist'.jobs[i].result # "pending")
             => \A k \in DOMAIN dist.jobs :
                   k <= ((i - 1) \div Config_MAX_CONCURRENT_JOBS) * Config_MAX_CONCURRENT_JOBS
                      => dist.jobs[k].result \in {"ok", "failed"}
       /\ Cardinality(in_flight') <= Config_MAX_CONCURRENT_JOBS]_vars

(* The same with the sub-batch size the distributor uses.                   *)
C30_SubBatchesOfTen ==
    [][/\ \A i \in DOMAIN dist.jobs :
             (/\ dist.pc = "jobs" /\ dist'.pc = "jobs"
              /\ dist.jobs[i].result = "pending"
              /\ dist'.jobs[i].result # "pending")
             => \A k \in DOMAIN dist.jobs :
                   k <= ((i - 1) \div MAX_CONCURRENT_JOBS) * MAX_CONCURRENT_JOBS
                      => dist.jobs[k].result \in {"ok", "failed"}
       /\ Cardinality(in_flight') <= MAX_CONCURRENT_JOBS]_vars

(* Six jobs of one pass in flight at once.                                  *)
C30_SixInFlight == Cardinality(in_flight) > Config_MAX_CONCURRENT_JOBS

(* ---------------------------------------------------------------------- *)
(* File names                                                              *)
(* ---------------------------------------------------------------------- *)
NextUpload ==
    \E filename \in Filenames, path_exists \in BOOLEAN :
        send_bambu_print_file(filename, path_exists)

SpecUpload == Init /\ [][NextUpload]_vars

(* The name with its doubled extension ".gcode.3mf" rewritten to ".3mf".   *)
doubled(name) == endswith(name, <<".gcode", ".3mf">>)
rewritten(name) == SubSeq(name, 1, Len(name) - 2) \o <<".3mf">>

(* C31: the name a file is uploaded under is the name itself when it ends  *)
(* in .3mf or in .gcode, the name with .gcode.3mf rewritten to .3mf when   *)
(* it ends in .gcode.3mf, and the name with .gcode appended otherwise.     *)
C31_FilenameNormalized ==
    ftp_upload.uploaded =>
        LET name == ftp_upload.filename
            remote == ftp_upload.remote_filename
        IN  IF doubled(name) THEN remote = rewritten(name)
            ELSE IF endswith(name, <<".3mf">>) THEN remote = name
            ELSE IF endswith(name, <<".gcode">>) THEN remote = name
            ELSE remote = name \o <<".gcode">>

(* The same for the names that do not end in .gcode.3mf.                    *)
C31_OtherNames ==
    (ftp_upload.uploaded /\ ~doubled(ftp_upload.filename)) =>
        LET name == ftp_upload.filename
            remote == ftp_upload.remote_filename
        IN  IF endswith(name, <<".3mf">>) THEN remote = name
            ELSE IF endswith(name, <<".gcode">>) THEN remote = name
            ELSE remote = name \o <<".gcode">>

(* A file named part.gcode.3mf uploaded under its own name.                 *)
C31_DoubledKept ==
    /\ ftp_upload.uploaded
    /\ ftp_upload.filename = <<"part", ".gcode", ".3mf">>
    /\ ftp_upload.remote_filename = ftp_upload.filename

(* C32: every update a tick computes for a printer of its snapshot is      *)
(* applied to that printer's own record: the entry of PRINTERS the tick    *)
(* reads and writes for a snapshot printer is that printer's.              *)
C32_UpdatesToSamePrinter ==
    \A p \in DOMAIN poll.snap : printer_indices(p) = p

(* A tick whose snapshot printer B2 is read and written at the entry of    *)
(* the service-mode printer P1.                                            *)
C32_WrongEntry ==
    /\ poll.pc = "fetch"
    /\ "B2" \in DOMAIN poll.snap
    /\ printer_indices("B2") = "P1"
    /\ service_mode(PRINTERS["P1"])

(* ---------------------------------------------------------------------- *)
(* Ejection completion is observed                                         *)
(* ---------------------------------------------------------------------- *)
(* The ejection file of the Prusa printer p has been uploaded and its      *)
(* print started: the state async_send_ejection_gcode leaves behind.       *)
EjectionFileSent(p) ==
    get_printer_ejection_state(EJECTION_STATES, p).state = "running"

(* The step takes printer p from EJECTING to READY without the operator.   *)
LeavesEjecting(p) ==
    /\ PRINTERS[p].state = "EJECTING" /\ PRINTERS'[p].state = "READY"
    /\ ~MarkedReady(p)

(* C33: a Prusa printer leaves EJECTING for READY only when its ejection   *)
(* file has been sent to it; an answer of FINISHED, IDLE or READY from a   *)
(* printer the file never reached does not complete the ejection.          *)
C33_CompletionObserved ==
    [][\A p \in DOMAIN PRINTERS :
          (PType(p) # "bambu" /\ LeavesEjecting(p)) => EjectionFileSent(p)]_vars

(* ---------------------------------------------------------------------- *)
(* The FINISHED handler and the ejection lock                              *)
(* ---------------------------------------------------------------------- *)
(* One Prusa printer and orders of MaxQty copies that ask for ejection;    *)
(* the poller with its first two statements as separate steps, the         *)
(* distributor and the operator's mark-ready.                              *)
NextSweep ==
    \/ \E group \in Groups : api_add_printer("P1", group, MaxPrinters)
    \/ api_create_order(MaxQty, TRUE, None, 5, Groups)
    \/ api_mark_printer_ready("P1")
    \/ Distributor({201})
    \/ PollSweep
    \/ PollSnapshot
    \/ \E obs \in PrusaObs : PollFinish(obs, TRUE, "ok", 201)

SpecSweep == Init /\ [][NextSweep]_vars

(* C34: the FINISHED handler answers EJECTING for a printer, with          *)
(* ejection_in_progress and ejection_processed set, only when it acquired  *)
(* the printer's ejection lock; while the lock is held by another flow the *)
(* handler does not move the printer to EJECTING.                          *)
C34_EjectingOnlyWithLock ==
    \A p \in EjectionCandidates, outcome \in SendOutcomes :
        LET w == handle_finished_state_ejection(CurrentWorld, p, poll.snap[p],
                                                EmptyUpdate, outcome)
        IN  EJECTION_LOCKS[p] =>
                /\ state_of(w.U[p]) # "EJECTING"
                /\ w.P[p].state = PRINTERS[p].state

(* ---------------------------------------------------------------------- *)
(* The global pause                                                        *)
(* ---------------------------------------------------------------------- *)
(* The step sends ejection G-code to printer p: a Bambu send leaves the    *)
(* cache EJECTING, a Prusa upload leaves the ejection state running.       *)
GcodeSentTo(p) ==
    \/ /\ PType(p) = "bambu"
       /\ BAMBU_PRINTER_STATES[p].state # "EJECTING"
       /\ BAMBU_PRINTER_STATES'[p].state = "EJECTING"
    \/ /\ PType(p) # "bambu"
       /\ EJECTION_STATES[p].state # "running"
       /\ EJECTION_STATES'[p].state = "running"

(* One Prusa printer and orders that ask for ejection; the tick in its     *)
(* steps, the distributor and the operator's pause and resume.             *)
NextStash ==
    \/ \E group \in Groups : api_add_printer("P1", group, MaxPrinters)
    \/ api_create_order(EjectQty, TRUE, None, 5, Groups)
    \/ api_pause_ejection
    \/ api_resume_ejection
    \/ mass_ejection_timer
    \/ Distributor({201})
    \/ PollBegin
    \/ \E obs \in PrusaObs : PollMerge(obs, TRUE, "ok")
    \/ \E upload_resp \in {201, 500} : PollUpload(upload_resp, "ok")

SpecStash == Init /\ [][NextStash]_vars

(* C35: while ejection_paused is true no ejection is started and no        *)
(* ejection G-code is sent, by the FINISHED handler, by the COOLING pass   *)
(* or by the upload of a stashed Prusa ejection.                           *)
C35_PausedNoEjection ==
    [][(ejection_paused /\ ejection_paused') =>
          \A p \in DOMAIN PRINTERS : ~GcodeSentTo(p)]_vars

(* ---------------------------------------------------------------------- *)
(* The ejection-locks map lock and the printers lock                       *)
(* ---------------------------------------------------------------------- *)
(* Pairs <<lock held, lock acquired>>.  clear_stuck_ejection_locks holds   *)
(* ejection_locks_lock and takes the printers read lock inside it.         *)
clear_stuck_lock_nesting == {<<"ejection_locks", "printers_read">>}

(* release_ejection_lock calls get_ejection_lock, which takes              *)
(* ejection_locks_lock, under whatever the caller holds.                   *)
release_lock_nesting(held) == {<<held, "ejection_locks">>}

(* The reconcile thread: a tick that starts now begins with the sweep; a   *)
(* tick past its snapshot has the completion pass ahead, which releases    *)
(* the ejection lock inside the write lock of the apply pass.              *)
poller_lock_nesting ==
    IF poll.pc = "idle" THEN clear_stuck_lock_nesting
    ELSE IF \E p \in DOMAIN PRINTERS : PRINTERS[p].state = "EJECTING"
    THEN release_lock_nesting("printers_write") ELSE {}

(* The watchdog thread: a completed Prusa ejection is finished inside the  *)
(* write lock, the ejection lock released there.                           *)
watchdog_lock_nesting ==
    IF \E p \in DOMAIN PRINTERS, obs \in PrusaObs :
          /\ PType(p) # "bambu"
          /\ PRINTERS[p].state = "EJECTING"
          /\ obs.state # "None"
          /\ watchdog_complete(p, obs)
    THEN release_lock_nesting("printers_write") ELSE {}

rwlock_of(l) == IF l \in {"printers_read", "printers_write"} THEN "printers_rwlock" ELSE l

(* Two nestings that can block each other: the same two locks in opposite  *)
(* orders, one side of the read/write lock being the write side.           *)
Opposite(a, b) ==
    /\ rwlock_of(a[1]) = rwlock_of(b[2])
    /\ rwlock_of(a[2]) = rwlock_of(b[1])
    /\ "printers_write" \in {a[1], a[2], b[1], b[2]}

(* C36: the reconcile thread and the watchdog thread, which run side by    *)
(* side, never take ejection_locks_lock and the printers lock in opposite  *)
(* orders.                                                                 *)
C36_NoOppositeOrder ==
    \A a \in poller_lock_nesting, b \in watchdog_lock_nesting : ~Opposite(a, b)

(* ---------------------------------------------------------------------- *)
(* finish_time across repeated FINISHED observations                       *)
(* ---------------------------------------------------------------------- *)
(* C37: when a Prusa printer that is stored FINISHED with a finish_time is *)
(* observed FINISHED again, the update the FINISHED handler leaves carries *)
(* that same finish_time, whichever branch of the handler answers.         *)
C37_FinishTimePreserved ==
    poll.pc = "fetch" =>
        \A p \in DOMAIN poll.snap, obs \in PrusaObs, outcome \in SendOutcomes :
            LET printer == poll.snap[p]
                u == merge(CurrentWorld, p, printer, obs, outcome).U[p]
            IN  (/\ PType(p) # "bambu"
                 /\ obs.state = "FINISHED"
                 /\ printer.state = "FINISHED"
                 /\ printer.finish_time # NoTime
                 /\ "finish_time" \in DOMAIN u)
                    => u.finish_time = printer.finish_time

(* ---------------------------------------------------------------------- *)
(* The states a printer is stored in                                       *)
(* ---------------------------------------------------------------------- *)
(* A PrusaLink answer may carry a state the poller has no rule for, and a  *)
(* Bambu report may carry gcode_state PREPARE.                             *)
RawObs == PrusaObs \cup {[state |-> "ATTENTION", file |-> NoFile]}
RawMessages == BambuMessages \cup {"PREPARE"}

(* One printer of either vendor, orders without ejection, the distributor, *)
(* the poller and the MQTT reports, with the raw states above.             *)
NextStates ==
    \/ \E p \in Printers, group \in Groups : api_add_printer(p, group, MaxPrinters)
    \/ api_create_order(EjectQty, FALSE, None, 5, Groups)
    \/ Distributor({201})
    \/ PollBegin
    \/ \E obs \in OnlyIf(HasPrusa(DOMAIN poll.snap), RawObs,
                          [state |-> "None", file |-> NoFile]),
          connected \in OnlyIf(HasBambu(DOMAIN poll.snap), BOOLEAN, TRUE) :
          PollFinish(obs, connected, "ok", 201)
    \/ \E p \in BambuPrinters, msg \in RawMessages \ {"M400"} :
          on_message(p, msg, 0, FALSE, 0, FALSE)

SpecStates == Init /\ [][NextStates]_vars

PrinterStates ==
    {"OFFLINE", "READY", "IDLE", "PRINTING", "PAUSED", "FINISHED", "EJECTING",
     "COOLING", "PREPARE", "ERROR"}

(* C38: the stored state of every printer is one of OFFLINE, READY, IDLE,  *)
(* PRINTING, PAUSED, FINISHED, EJECTING, COOLING, PREPARE and ERROR.       *)
C38_StateInSet ==
    \A p \in DOMAIN PRINTERS : PRINTERS[p].state \in PrinterStates

(* ---------------------------------------------------------------------- *)
(* Rejected Bambu ejection sends                                           *)
(* ---------------------------------------------------------------------- *)
NextSend ==
    \E entry \in CacheEntries, force \in BOOLEAN, outcome \in SendOutcomes :
        bambu_ejection_send(entry, force, outcome)

SpecSend == Init /\ [][NextSend]_vars

api_create_order_and_distribute(quantity, filament_g) ==
    /\ Len(ORDERS) < MaxOrders
    /\ ORDERS' = Append(ORDERS,
          [id |-> SetMax(OrderIds) + 1, quantity |-> quantity, sent |-> 0,
           filament_g |-> filament_g, ejection_enabled |-> FALSE,
           cooldown_temp |-> None, groups |-> Groups, deleted |-> FALSE])
    /\ UNCHANGED <<PRINTERS, TOTAL_FILAMENT_CONSUMPTION, poll, ejectVars>>
    /\ dist' = IF acquire(dist.semaphore) /\ (all_jobs(active_orders, 1, {}))' # <<>>
               THEN [dist EXCEPT !.pc = "jobs",
                                 !.jobs = (all_jobs(active_orders, 1, {}))',
                                 !.semaphore = @ - 1]
               ELSE dist

(* The steps of a pass that has started.                                   *)
DistributionPass(Responses) ==
    \/ \E i \in 1..Cardinality(Printers) : check_and_start_print(i)
    \/ \E i \in 1..Cardinality(Printers) :
          /\ dist.pc = "jobs" /\ i \in DOMAIN dist.jobs
          /\ \E upload_resp \in Responses : start_print(i, upload_resp, 0, "ok")
    \/ DistApply

(* One Prusa printer, orders through the route, the passes the route and   *)
(* the timers start, and the poller.  No request arrives on its own.       *)
NextLive ==
    \/ \E group \in Groups : api_add_printer("P1", group, MaxPrinters)
    \/ \E quantity \in Quantities :
          api_create_order_and_distribute(quantity, 5)
    \/ DistributionPass({201, 500})
    \/ mass_ejection_timer
    \/ PollerPass

(* The poller thread loops for ever, a started pass runs to its end and a  *)
(* started timer fires.                                                    *)
SpecLive ==
    /\ Init /\ [][NextLive]_vars
    /\ WF_vars(PollerPass)
    /\ WF_vars(DistributionPass({201, 500}))
    /\ WF_vars(mass_ejection_timer)

(* An active order and a READY or IDLE printer of its groups, out of       *)
(* service mode.                                                           *)
Waiting == all_jobs(active_orders, 1, {}) # <<>>

(* C40: an active order and a ready printer of its groups do not wait for  *)
(* ever: while both stay, a pass eventually starts a job for them.         *)
C40_EventuallyDistributed == Waiting ~> ~Waiting

====
